---- MODULE Spec2Model ----
(***************************************************************************)
(* LlmSummaryService (aggregator/plugins/llm_summary/services.py): the     *)
(* windowed collection, validation, presence analysis, phase               *)
(* classification and character-budgeted serialization behind             *)
(* build_context, and the two entry points chat and                        *)
(* generate_progress_summary that hand the context to the narrative        *)
(* generator.                                                              *)
(*                                                                         *)
(* Dates are proleptic ordinals (date.toordinal()), metric values are      *)
(* integers (the collector converts counts and sums with float()), and     *)
(* texts are strings.                                                      *)
(***************************************************************************)
EXTENDS Integers, Sequences, FiniteSets, TLC

VARIABLES
    \* ---- _window_ranges --------------------------------------------------
    end_date,          \* the anchor end date
    windows,           \* window name -> <<start, end>>, or NoValue before the call
    \* ---- _validate_metrics -----------------------------------------------
    collected,         \* the metric list handed to _validate_metrics
    metrics,           \* the validated list it returns
    caveats,           \* the caveat list it returns
    enum_qualified,    \* how the interpreter formats a str-mixin Enum in an f-string
    \* ---- _streak_from_series ---------------------------------------------
    series,            \* the daily series handed to _streak_from_series
    threshold,         \* its threshold
    row_index,         \* how many rows of sorted(series) the loop has walked
    streak,            \* the loop's streak
    longest,           \* the loop's longest
    last_day,          \* the loop's last_day (0 for None)
    \* ---- the service, the database, one chat / generate_progress_summary ----
    max_context_chars, \* self.max_context_chars
    tables,            \* source -> [exists, rows]: the plugin tables
    entry,             \* the entry point running, or NoValue
    start_date,        \* the start of _date_range
    next_source,       \* the source the running per-source loop is at
    source_snapshots,  \* source -> snapshot, for the sources done
    derived,           \* _context_from_metrics: <<source, derived record>> pairs
    context_text,      \* the context text build_context returns
    payload,           \* the ContextPayload build_context returns
    stages,            \* the stages the invocation has entered, in order
    http_posts,        \* requests.post calls made
    llm_outcome,       \* what the generator's endpoint did
    result,            \* the text returned to the caller
    raised,            \* the exception that left the entry point, or <<>>
    \* ---- one call of a helper method on its own ---------------------------
    args,              \* the arguments of the call
    ret,               \* what the call returned
    locals,            \* the local variables of a call that runs in steps
    pc                 \* position of the running call

windows_vars == <<end_date, windows>>

service_vars == <<max_context_chars, tables>>

call_vars == <<entry, start_date, next_source, source_snapshots, derived,
               context_text, payload, stages, http_posts, llm_outcome, result,
               raised>>

helper_vars == <<args, ret, locals>>

validate_vars == <<collected, metrics, caveats, enum_qualified>>

streak_vars == <<series, threshold, row_index, streak, longest, last_day>>

vars == <<windows_vars, validate_vars, streak_vars, service_vars, call_vars,
          helper_vars, pc>>

NoValue == "NoValue"

(***************************************************************************)
(* Bounds of the model                                                     *)
(***************************************************************************)
AnchorDay == 738917        \* 2024-02-01 as an ordinal
DateSpan == 120            \* anchor dates explored: AnchorDay .. AnchorDay + DateSpan
MaxMetrics == 3            \* longest metric list handed to the validator alone
MaxValue == 1              \* metric values explored: -1 .. MaxValue
MaxSeriesDays == 6         \* days a series handed to _streak_from_series spans
MinBudget == 200           \* the smallest configured max_context_chars
MidBudget == 1500          \* a configured max_context_chars some contexts exceed
BusyDays == 20             \* active days in a row of the busiest table

(***************************************************************************)
(* models.py                                                               *)
(***************************************************************************)
Window == {"LAST_7_DAYS", "LAST_30_DAYS", "LAST_90_DAYS", "PRIOR_30_DAYS",
           "PRIOR_90_DAYS", "LAST_12_MONTHS"}

Sources == <<"asana", "toggl", "habitica", "google_fit">>

SourceSet == {Sources[i] : i \in 1..Len(Sources)}

\* The metric name and unit the collector gives each source.
MetricName(source) ==
    CASE source = "asana" -> "tasks_completed"
      [] source = "toggl" -> "minutes_tracked"
      [] source = "habitica" -> "completions"
      [] source = "google_fit" -> "steps"

MetricUnit(source) ==
    CASE source = "asana" -> "count"
      [] source = "toggl" -> "minutes"
      [] source = "habitica" -> "count"
      [] source = "google_fit" -> "steps"

\* LAST_* windows are collected with confidence "high", PRIOR_* with "medium".
MetricConfidence(window) ==
    IF window \in {"LAST_30_DAYS", "LAST_90_DAYS"} THEN "high" ELSE "medium"

Metric(source, window, value, coverage_days) ==
    [name |-> MetricName(source), source |-> source, window |-> window,
     value |-> value, unit |-> MetricUnit(source),
     coverage_days |-> coverage_days, confidence |-> MetricConfidence(window)]

(***************************************************************************)
(* _window_ranges                                                          *)
(***************************************************************************)
WindowNames == {"LAST_7_DAYS", "LAST_30_DAYS", "PRIOR_30_DAYS", "LAST_90_DAYS",
                "PRIOR_90_DAYS"}

_window_ranges_shifted(end) ==
    [w \in WindowNames |->
        CASE w = "LAST_7_DAYS" -> <<end - 7, end>>
          [] w = "LAST_30_DAYS" -> <<end - 30, end>>
          [] w = "PRIOR_30_DAYS" -> <<end - 60, end - 31>>
          [] w = "LAST_90_DAYS" -> <<end - 90, end>>
          [] w = "PRIOR_90_DAYS" -> <<end - 180, end - 91>>]

_window_ranges(end) ==
    [w \in WindowNames |->
        CASE w = "LAST_7_DAYS" -> <<end - 7, end>>
          [] w = "LAST_30_DAYS" -> <<end - 30, end>>
          [] w = "PRIOR_30_DAYS" -> <<end - 60, end - 30>>
          [] w = "LAST_90_DAYS" -> <<end - 90, end>>
          [] w = "PRIOR_90_DAYS" -> <<end - 180, end - 90>>]

(***************************************************************************)
(* repositories.py: the plugin tables and the read-only queries on them.   *)
(* A table is [exists, rows]; a row [day, val] is one active day with the  *)
(* day's aggregate (items completed, minutes, steps).                      *)
(***************************************************************************)
RECURSIVE SumVals(_)
SumVals(rows) ==
    IF rows = {} THEN 0
    ELSE LET r == CHOOSE r \in rows : TRUE
         IN r.val + SumVals(rows \ {r})

RowsBetween(table, start, end) == {r \in table.rows : start <= r.day /\ r.day < end}

\* asana_totals, toggl_totals, habitica_totals, google_fit_totals: {} (here
\* <<>>) without the table, else the one row of the aggregate query. SUM over
\* no rows is NULL, which the collector reads as 0.
totals(table, start, end) ==
    IF ~table.exists THEN <<>>
    ELSE <<[value |-> SumVals(RowsBetween(table, start, end)),
            coverage_days |-> Cardinality(RowsBetween(table, start, end))]>>

\* The value column of each source's daily rows. asana_daily_series and
\* toggl_daily_series name theirs; the rows of habitica_daily and
\* google_fit_daily_steps are read by _streaks as "completions" and "steps".
DailyColumn(source) ==
    CASE source = "asana" -> "completed"
      [] source = "toggl" -> "minutes"
      [] source = "habitica" -> "completions"
      [] source = "google_fit" -> "steps"

\* The rows of a set of table rows as the queries return them: one row per
\* day, ORDER BY day DESC.
RECURSIVE RowsDesc(_, _)
RowsDesc(rows, col) ==
    IF rows = {} THEN <<>>
    ELSE LET r == CHOOSE r \in rows : \A q \in rows : q.day <= r.day
         IN <<[day |-> r.day, col |-> col, val |-> r.val]>>
            \o RowsDesc(rows \ {r}, col)

\* asana_daily_series and toggl_daily_series check table_exists first;
\* habitica_daily and google_fit_daily_steps go through run_query, which
\* returns [] when the query file is missing and otherwise executes it.
ChecksTable(source) == source \in {"asana", "toggl"}

\* [raised, rows] of _daily_series(source, window)
_daily_series(source, table, window, file_present) ==
    IF ChecksTable(source)
    THEN [raised |-> FALSE,
          rows |-> IF table.exists
                   THEN RowsDesc(RowsBetween(table, window[1], window[2]),
                                 DailyColumn(source))
                   ELSE <<>>]
    ELSE IF ~file_present THEN [raised |-> FALSE, rows |-> <<>>]
    ELSE IF ~table.exists THEN [raised |-> TRUE, rows |-> <<>>]
    ELSE [raised |-> FALSE,
          rows |-> RowsDesc(RowsBetween(table, window[1], window[2]),
                            DailyColumn(source))]

(***************************************************************************)
(* _validate_metrics                                                       *)
(***************************************************************************)
\* f"{m.window}": a str-mixin Enum formats as its value before Python 3.11
\* and as Class.MEMBER from 3.11 on.
FormatWindow(window, qualified) ==
    IF qualified THEN "Window." \o window ELSE window

\* find(source, window, name): the first metric of the INPUT list with that
\* key, as <<m>>, or <<>> for None.
find(ms, source, window, name) ==
    LET match(m) == m.source = source /\ m.window = window /\ m.name = name
        hits == SelectSeq(ms, match)
    IN IF hits = <<>> THEN <<>> ELSE <<Head(hits)>>

is_negative_off_by_one(m) == m.value < -1

\* Rule 1 (line 748)
is_negative(m) == m.value < 0

NegativeCaveat(m, qualified) ==
    "Dropped negative metric " \o m.name \o " " \o m.source \o " "
        \o FormatWindow(m.window, qualified)

exceeds_last_90_or_equal(ms, m) ==
    LET last30 == find(ms, m.source, "LAST_30_DAYS", m.name)
        last90 == find(ms, m.source, "LAST_90_DAYS", m.name)
    IN /\ last30 /= <<>>
       /\ last90 /= <<>>
       /\ last30[1].value >= last90[1].value
       /\ m.window = "LAST_30_DAYS"

\* Rule 2 (lines 755-757)
exceeds_last_90(ms, m) ==
    LET last30 == find(ms, m.source, "LAST_30_DAYS", m.name)
        last90 == find(ms, m.source, "LAST_90_DAYS", m.name)
    IN /\ last30 /= <<>>
       /\ last90 /= <<>>
       /\ last30[1].value > last90[1].value
       /\ m.window = "LAST_30_DAYS"

ExceedCaveat(m) ==
    "Dropped " \o m.source \o " " \o m.name
        \o " last 30 metrics due to exceeding last 90 window."

RECURSIVE MapSeq(_, _)
MapSeq(Op(_), s) ==
    IF s = <<>> THEN <<>> ELSE <<Op(Head(s))>> \o MapSeq(Op, Tail(s))

\* Returns [final, caveats]: the first loop drops negatives, the second the
\* 30-day metrics that exceed their 90-day figure; both append to one list.
_validate_metrics(ms, qualified) ==
    LET negative(m) == is_negative(m)
        kept(m) == ~is_negative(m)
        filtered == SelectSeq(ms, kept)
        exceeds(m) == exceeds_last_90(ms, m)
        stays(m) == ~exceeds_last_90(ms, m)
        negcaveat(m) == NegativeCaveat(m, qualified)
    IN [final |-> SelectSeq(filtered, stays),
        caveats |-> MapSeq(negcaveat, SelectSeq(ms, negative))
                    \o MapSeq(ExceedCaveat, SelectSeq(filtered, exceeds))]

(***************************************************************************)
(* Daily series rows: [day, col, val], col being the value column of the   *)
(* query that produced the row.                                            *)
(***************************************************************************)
ValueColumns == {"completed", "minutes", "steps"}

\* float(row.get("completed") or row.get("minutes") or row.get("steps") or 0)
RowValue(row) == IF row.col \in ValueColumns THEN row.val ELSE 0

\* _as_date: the rows of the repository carry date objects, returned as is.
_as_date(val) == val

\* sorted(series, key=day): a stable insertion sort, ascending.
RECURSIVE InsertByDay(_, _)
InsertByDay(sorted, row) ==
    IF sorted = <<>> THEN <<row>>
    ELSE IF _as_date(sorted[Len(sorted)].day) <= _as_date(row.day)
         THEN Append(sorted, row)
         ELSE Append(InsertByDay(SubSeq(sorted, 1, Len(sorted) - 1), row),
                     sorted[Len(sorted)])

RECURSIVE SortByDay(_)
SortByDay(rows) ==
    IF rows = <<>> THEN <<>>
    ELSE InsertByDay(SortByDay(SubSeq(rows, 1, Len(rows) - 1)), rows[Len(rows)])

(***************************************************************************)
(* _streak_from_series                                                     *)
(***************************************************************************)
DefaultThreshold == 1

StepsThreshold == 2000

Max(a, b) == IF a >= b THEN a ELSE b

meets_strictly(row, t) == RowValue(row) > t

\* line 614
meets(row, t) == RowValue(row) >= t

streak_step_no_reset(st, row, t) ==
    LET current == _as_date(row.day)
    IN IF ~meets(row, t)
       THEN [streak |-> st.streak, longest |-> st.longest, last_day |-> current]
       ELSE LET next == IF st.last_day /= 0 /\ current - st.last_day = 1
                        THEN st.streak + 1 ELSE 1
            IN [streak |-> next, longest |-> Max(st.longest, next),
                last_day |-> current]

\* One iteration of the loop (lines 613-624) on the loop state
\* [streak, longest, last_day].
streak_step(st, row, t) ==
    LET current == _as_date(row.day)
    IN IF ~meets(row, t)
       THEN [streak |-> 0, longest |-> st.longest, last_day |-> current]
       ELSE LET next == IF st.last_day /= 0 /\ current - st.last_day = 1
                        THEN st.streak + 1 ELSE 1
            IN [streak |-> next, longest |-> Max(st.longest, next),
                last_day |-> current]

RECURSIVE StreakWalk(_, _, _)
StreakWalk(st, rows, t) ==
    IF rows = <<>> THEN st
    ELSE StreakWalk(streak_step(st, Head(rows), t), Tail(rows), t)

_streak_from_series(rows, t) ==
    LET st == StreakWalk([streak |-> 0, longest |-> 0, last_day |-> 0],
                         SortByDay(rows), t)
    IN [current |-> st.streak, longest |-> st.longest]

(***************************************************************************)
(* _presence, _longest_gap, _consistency, _best_from_series, _momentum     *)
(***************************************************************************)
RECURSIVE MaxGap(_, _)
MaxGap(days_sorted, so_far) ==
    IF Len(days_sorted) < 2 THEN so_far
    ELSE LET gap == days_sorted[2] - days_sorted[1] - 1
         IN MaxGap(Tail(days_sorted), IF gap > so_far THEN gap ELSE so_far)

_longest_gap_span(rows, window_days) ==
    IF rows = <<>> THEN window_days
    ELSE LET days == MapSeq(LAMBDA r : _as_date(r.day), SortByDay(rows))
         IN days[Len(days)] - days[1]

_longest_gap(rows, window_days) ==
    IF rows = <<>> THEN window_days
    ELSE LET day_of(r) == _as_date(r.day)
         IN Max(MaxGap(MapSeq(day_of, SortByDay(rows)), 0), 0)

_presence(rows, window_days) ==
    [days_active |-> Len(rows), window_days |-> window_days,
     longest_gap_days |-> _longest_gap(rows, window_days)]

RECURSIVE SumSeq(_)
SumSeq(xs) == IF xs = <<>> THEN 0 ELSE Head(xs) + SumSeq(Tail(xs))

\* sorted(values), ascending
RECURSIVE InsertValue(_, _)
InsertValue(sorted, x) ==
    IF sorted = <<>> THEN <<x>>
    ELSE IF sorted[Len(sorted)] <= x THEN Append(sorted, x)
    ELSE Append(InsertValue(SubSeq(sorted, 1, Len(sorted) - 1), x), sorted[Len(sorted)])

RECURSIVE SortValues(_)
SortValues(xs) ==
    IF xs = <<>> THEN <<>>
    ELSE InsertValue(SortValues(SubSeq(xs, 1, Len(xs) - 1)), xs[Len(xs)])

\* statistics.median, doubled so that it stays an integer
MedianTimes2(xs) ==
    LET sorted == SortValues(xs)
        n == Len(xs)
    IN IF n % 2 = 1 THEN 2 * sorted[(n + 1) \div 2]
       ELSE sorted[n \div 2] + sorted[n \div 2 + 1]

Abs(x) == IF x < 0 THEN -x ELSE x

RECURSIVE Gcd(_, _)
Gcd(a, b) == IF b = 0 THEN Abs(a) ELSE Gcd(b, a % b)

RECURSIVE GcdSeq(_)
GcdSeq(xs) == IF xs = <<>> THEN 0 ELSE Gcd(Head(xs), GcdSeq(Tail(xs)))

\* round(count / window_days, 2) in hundredths, ties to even
RoundRatioPct(count, window_days) ==
    LET q == (100 * count) \div window_days
        r == (100 * count) % window_days
    IN IF 2 * r > window_days THEN q + 1
       ELSE IF 2 * r < window_days THEN q
       ELSE IF q % 2 = 0 THEN q ELSE q + 1

\* cv = pstdev / mean as the pair [sq, sum] with cv = sqrt(sq) / sum, where
\* sum = sum(x) and sq = n * sum(x^2) - sum(x)^2, both taken of the values
\* divided by their common divisor (cv does not depend on the scale).
CvOf(xs) ==
    LET g == GcdSeq(xs)
        scaled(x) == x \div g
        square(x) == (x \div g) * (x \div g)
        sum == SumSeq(MapSeq(scaled, xs))
    IN [sq |-> Len(xs) * SumSeq(MapSeq(square, xs)) - sum * sum, sum |-> sum]

\* cv < 0.5
CvBelowHalf(cv) == IF cv.sum < 0 THEN TRUE ELSE 4 * cv.sq < cv.sum * cv.sum

\* line 606: "spread" if cv and cv < 0.5 else "clustered"; a cv of None or 0.0
\* is falsy.
burstiness_of(defined, cv) ==
    IF defined /\ cv.sq /= 0 /\ CvBelowHalf(cv) THEN "spread" ELSE "clustered"

\* The record of _consistency: active_ratio in hundredths, the median
\* doubled, cv as CvOf gives it; empty marks the early return for no values.
_consistency(rows, window_days) ==
    LET values == MapSeq(RowValue, rows)
    IN IF values = <<>>
       THEN [empty |-> TRUE, active_ratio |-> 0, median2 |-> 0,
             cv_defined |-> FALSE, cv |-> [sq |-> 0, sum |-> 0],
             burstiness |-> NoValue]
       ELSE LET defined == SumSeq(values) /= 0
                cv == IF defined THEN CvOf(values) ELSE [sq |-> 0, sum |-> 0]
            IN [empty |-> FALSE,
                active_ratio |-> RoundRatioPct(Len(values), window_days),
                median2 |-> MedianTimes2(values),
                cv_defined |-> defined, cv |-> cv,
                burstiness |-> burstiness_of(defined, cv)]

\* max(series, key=value): the first row of the greatest value; <<>> for {}
RECURSIVE BestRow(_, _)
BestRow(rows, best) ==
    IF rows = <<>> THEN best
    ELSE BestRow(Tail(rows),
                 IF RowValue(Head(rows)) > RowValue(best) THEN Head(rows) ELSE best)

_best_from_series(rows) ==
    IF rows = <<>> THEN <<>>
    ELSE LET b == BestRow(Tail(rows), Head(rows))
         IN <<[day |-> b.day, value |-> RowValue(b)]>>

\* a / b >= p / q, for b /= 0 and q > 0
RatioAtLeast(a, b, p, q) == IF b > 0 THEN a * q >= p * b ELSE a * q <= p * b

_momentum_above(series_30, series_90) ==
    LET total_30 == SumSeq(MapSeq(RowValue, series_30))
        total_90 == SumSeq(MapSeq(RowValue, series_90))
    IN IF total_90 = 0 THEN "paused"
       ELSE IF RatioAtLeast(total_30, total_90, 6, 10) /\ 10 * total_30 /= 6 * total_90
            THEN "rising"
       ELSE IF RatioAtLeast(total_30, total_90, 3, 10) THEN "stable"
       ELSE "cooling"

_momentum(series_30, series_90) ==
    LET total_30 == SumSeq(MapSeq(RowValue, series_30))
        total_90 == SumSeq(MapSeq(RowValue, series_90))
    IN IF total_90 = 0 THEN "paused"
       ELSE IF RatioAtLeast(total_30, total_90, 6, 10) THEN "rising"
       ELSE IF RatioAtLeast(total_30, total_90, 3, 10) THEN "stable"
       ELSE "cooling"

(***************************************************************************)
(* Text: str() and repr() of the values the context carries, json.dumps    *)
(***************************************************************************)
IntStr(n) == IF n < 0 THEN "-" \o ToString(-n) ELSE ToString(n)

Pad2(n) == IF n < 10 THEN "0" \o ToString(n) ELSE ToString(n)

Pad4(n) ==
    IF n < 10 THEN "000" \o ToString(n)
    ELSE IF n < 100 THEN "00" \o ToString(n)
    ELSE IF n < 1000 THEN "0" \o ToString(n)
    ELSE ToString(n)

\* str(date) of an ordinal: YYYY-MM-DD of the proleptic Gregorian calendar.
DateStr(ordinal) ==
    LET z == ordinal + 305
        era == z \div 146097
        doe == z - era * 146097
        yoe == (doe - doe \div 1460 + doe \div 36524 - doe \div 146096) \div 365
        doy == doe - (365 * yoe + yoe \div 4 - yoe \div 100)
        mp == (5 * doy + 2) \div 153
        d == doy - (153 * mp + 2) \div 5 + 1
        m == IF mp < 10 THEN mp + 3 ELSE mp - 9
        y == yoe + era * 400 + (IF m <= 2 THEN 1 ELSE 0)
    IN Pad4(y) \o "-" \o Pad2(m) \o "-" \o Pad2(d)

\* repr(float(n)) of an integer n
FloatStr(n) == IntStr(n) \o ".0"

\* repr of the float m2 / 2
HalfStr(m2) ==
    IF m2 % 2 = 0 THEN FloatStr(m2 \div 2)
    ELSE (IF m2 < 0 THEN "-" ELSE "") \o ToString(Abs(m2) \div 2) \o ".5"

\* repr of the float h / 100, h >= 0
HundredthsStr(h) ==
    ToString(h \div 100) \o "."
        \o (IF h % 10 = 0 THEN ToString((h % 100) \div 10) ELSE Pad2(h % 100))

\* The decimal digits of rem / den after the point, up to `left` of them,
\* without trailing zeros.
RECURSIVE Fraction(_, _, _)
Fraction(rem, den, left) ==
    IF rem = 0 \/ left = 0 THEN ""
    ELSE ToString((rem * 10) \div den) \o Fraction((rem * 10) % den, den, left - 1)

\* repr of the float num / den, num >= 0, den > 0, to 16 decimals
RatioStr(num, den) ==
    LET frac == Fraction(num % den, den, 16)
    IN ToString(num \div den) \o "." \o (IF frac = "" THEN "0" ELSE frac)

RECURSIVE IsqrtFrom(_, _)
IsqrtFrom(n, r) == IF (r + 1) * (r + 1) > n THEN r ELSE IsqrtFrom(n, r + 1)

\* repr of cv = sqrt(sq) / sum. Exact when sq is a perfect square (always for
\* one or two values); otherwise the digits of floor(sqrt(sq)) / sum.
CvStr(cv) ==
    (IF cv.sum < 0 THEN "-" ELSE "") \o RatioStr(IsqrtFrom(cv.sq, 0), Abs(cv.sum))

RECURSIVE Join(_, _)
Join(items, sep) ==
    IF items = <<>> THEN ""
    ELSE IF Len(items) = 1 THEN items[1]
    ELSE items[1] \o sep \o Join(Tail(items), sep)

JStr(text) == "\"" \o text \o "\""

JList(items) == "[" \o Join(items, ", ") \o "]"

\* A dict is a sequence of <<key, serialized value>> pairs, in insertion order.
JPair(pair) == JStr(pair[1]) \o ": " \o pair[2]

JObj(pairs) == "{" \o Join(MapSeq(JPair, pairs), ", ") \o "}"

\* dict.pop(key, None)
Pop(pairs, key) ==
    LET other(pair) == pair[1] /= key
    IN SelectSeq(pairs, other)

(***************************************************************************)
(* _derive_phase_and_signals, _highlights, _changes                        *)
(***************************************************************************)
phase_of_above_half(momentum, active_ratio) ==
    IF momentum = "rising" /\ active_ratio > 50 THEN "execution"
    ELSE IF momentum = "stable" /\ active_ratio >= 30 THEN "maintenance"
    ELSE IF momentum = "cooling" THEN "recovery"
    ELSE "paused"

phase_of(momentum, active_ratio) ==
    IF momentum = "rising" /\ active_ratio >= 50 THEN "execution"
    ELSE IF momentum = "stable" /\ active_ratio >= 30 THEN "maintenance"
    ELSE IF momentum = "cooling" THEN "recovery"
    ELSE "paused"

engagement_of_fragmented_at_zero(active_ratio, burst) ==
    IF active_ratio >= 60 /\ burst = "spread" THEN "steady"
    ELSE IF active_ratio >= 30 /\ burst /= "clustered" THEN "focused"
    ELSE IF active_ratio >= 0 THEN "fragmented"
    ELSE "sparse"

engagement_of(active_ratio, burst) ==
    IF active_ratio >= 60 /\ burst = "spread" THEN "steady"
    ELSE IF active_ratio >= 30 /\ burst /= "clustered" THEN "focused"
    ELSE IF active_ratio > 0 THEN "fragmented"
    ELSE "sparse"

MedianStr(consistency) ==
    IF consistency.empty THEN "0" ELSE HalfStr(consistency.median2)

key_facts_of(snap) ==
    <<"Active " \o IntStr(snap.presence.days_active) \o "/"
        \o IntStr(snap.presence.window_days) \o " days; longest gap "
        \o IntStr(snap.presence.longest_gap_days) \o " days",
      "Median daily value " \o MedianStr(snap.consistency) \o "; variability "
        \o (IF snap.consistency.cv_defined THEN CvStr(snap.consistency.cv)
            ELSE "n/a"),
      "Current streak " \o IntStr(snap.streaks.current) \o " days; longest "
        \o IntStr(snap.streaks.longest)>>

_derive_phase_and_signals(source, snap) ==
    [phase |-> phase_of(snap.momentum, snap.consistency.active_ratio),
     momentum |-> snap.momentum,
     engagement |-> engagement_of(snap.consistency.active_ratio,
                                  snap.consistency.burstiness),
     presence |-> snap.presence,
     consistency |-> snap.consistency,
     streaks |-> snap.streaks,
     best |-> snap.best,
     key_facts |-> SubSeq(key_facts_of(snap), 1, 3)]

\* list[:n]
Take(items, n) == SubSeq(items, 1, IF Len(items) < n THEN Len(items) ELSE n)

\* by_source (the dict `derived`) is a sequence of <<source, record>>
\* pairs, in insertion order.
_highlights(by_source) ==
    LET is_win(p) == /\ p[2].engagement \in {"steady", "focused"}
                     /\ p[2].phase \in {"execution", "maintenance"}
        win(p) == p[1] \o ": " \o p[2].engagement \o " pattern with "
                    \o p[2].phase \o " phase"
        has_streak(p) == p[2].streaks.longest >= 5
        streak_line(p) == p[1] \o ": longest streak "
                            \o IntStr(p[2].streaks.longest) \o " days"
        is_steady(p) == p[2].engagement = "steady"
        steady(p) == p[1] \o ": stable engagement"
    IN [wins |-> Take(MapSeq(win, SelectSeq(by_source, is_win)), 3),
        streaks |-> Take(MapSeq(streak_line, SelectSeq(by_source, has_streak)), 3),
        stability |-> Take(MapSeq(steady, SelectSeq(by_source, is_steady)), 3)]

\* "increase", "decrease", "stable" or "none" for one source (lines 714-723);
\* find is the same first-match lookup as fetch.
change_of(ms, source) ==
    LET last == find(ms, source, "LAST_30_DAYS", MetricName(source))
        prior == IF last /= <<>>
                 THEN find(ms, source, "PRIOR_30_DAYS", last[1].name) ELSE <<>>
    IN IF last = <<>> \/ prior = <<>> THEN "none"
       ELSE IF prior[1].value = 0 THEN "none"
       ELSE IF RatioAtLeast(last[1].value - prior[1].value, prior[1].value, 2, 10)
            THEN "increase"
       ELSE IF RatioAtLeast(prior[1].value - last[1].value, prior[1].value, 2, 10)
            THEN "decrease"
       ELSE "stable"

\* order: the order in which the set literal of line 713 is iterated.
_changes(ms, order) ==
    LET increased(src) == change_of(ms, src) = "increase"
        decreased(src) == change_of(ms, src) = "decrease"
        stable(src) == change_of(ms, src) = "stable"
        inc_line(src) == src \o ": increased vs prior 30d"
        dec_line(src) == src \o ": decreased vs prior 30d"
        stable_line(src) == src \o ": stable vs prior 30d"
    IN [meaningful_increases |-> Take(MapSeq(inc_line, SelectSeq(order, increased)), 5),
        meaningful_decreases |-> Take(MapSeq(dec_line, SelectSeq(order, decreased)), 5),
        no_change |-> Take(MapSeq(stable_line, SelectSeq(order, stable)), 5)]

(***************************************************************************)
(* _context_from_metrics                                                   *)
(***************************************************************************)
MaxContextCap == 6000

\* __init__, line 68
max_context_chars_of(configured) ==
    IF configured < MaxContextCap THEN configured ELSE MaxContextCap

JStrList(items) == JList(MapSeq(JStr, items))

JPresence(presence) ==
    JObj(<< <<"days_active", IntStr(presence.days_active)>>,
            <<"window_days", IntStr(presence.window_days)>>,
            <<"longest_gap_days", IntStr(presence.longest_gap_days)>> >>)

JConsistency(c) ==
    IF c.empty
    THEN JObj(<< <<"active_ratio", "0">>, <<"median", "0">>, <<"cv", "null">>,
                 <<"burstiness", "null">> >>)
    ELSE JObj(<< <<"active_ratio", HundredthsStr(c.active_ratio)>>,
                 <<"median", HalfStr(c.median2)>>,
                 <<"cv", IF c.cv_defined THEN CvStr(c.cv) ELSE "null">>,
                 <<"burstiness", JStr(c.burstiness)>> >>)

JStreaks(st) ==
    JObj(<< <<"current", IntStr(st.current)>>, <<"longest", IntStr(st.longest)>> >>)

JBest(best) ==
    IF best = <<>> THEN "{}"
    ELSE JObj(<< <<"day", JStr(DateStr(best[1].day))>>,
                 <<"value", FloatStr(best[1].value)>> >>)

JDerived(d) ==
    JObj(<< <<"phase", JStr(d.phase)>>,
            <<"momentum", JStr(d.momentum)>>,
            <<"engagement", JStr(d.engagement)>>,
            <<"presence", JPresence(d.presence)>>,
            <<"consistency", JConsistency(d.consistency)>>,
            <<"streaks", JStreaks(d.streaks)>>,
            <<"best", JBest(d.best)>>,
            <<"key_facts", JStrList(d.key_facts)>> >>)

JHighlights(h) ==
    JObj(<< <<"wins", JStrList(h.wins)>>, <<"streaks", JStrList(h.streaks)>>,
            <<"stability", JStrList(h.stability)>> >>)

JChanges(c) ==
    JObj(<< <<"meaningful_increases", JStrList(c.meaningful_increases)>>,
            <<"meaningful_decreases", JStrList(c.meaningful_decreases)>>,
            <<"no_change", JStrList(c.no_change)>> >>)

\* The keys of `sources`, in insertion order: each source at its first metric.
RECURSIVE SourceKeys(_, _)
SourceKeys(ms, seen) ==
    IF ms = <<>> THEN <<>>
    ELSE IF Head(ms).source \in seen THEN SourceKeys(Tail(ms), seen)
    ELSE <<Head(ms).source>> \o SourceKeys(Tail(ms), seen \cup {Head(ms).source})

derived_of_every_snapshot(ms, snapshots) ==
    LET derive(src) == <<src, _derive_phase_and_signals(src, snapshots[src])>>
        snapped(src) == src \in DOMAIN snapshots
    IN MapSeq(derive, SelectSeq(Sources, snapped))

\* lines 776-779
derived_of(ms, snapshots) ==
    LET derive(src) == <<src, _derive_phase_and_signals(src, snapshots[src])>>
    IN MapSeq(derive, SourceKeys(ms, {}))

\* lines 781-787: the context dict with its values serialized
context_of(by_source, ms, cavs, order) ==
    LET jpair(p) == <<p[1], JDerived(p[2])>>
    IN << <<"period", JStr("last_30_days")>>,
          <<"sources", JObj(MapSeq(jpair, by_source))>>,
          <<"highlights", JHighlights(_highlights(by_source))>>,
          <<"changes", JChanges(_changes(ms, order))>>,
          <<"uncertainties", JStrList(cavs)>> >>

\* text[:n]
Slice(text, n) == SubSeq(text, 1, IF Len(text) < n THEN Len(text) ELSE n)

compact_unsliced(context, max_chars) ==
    LET text == JObj(context)
    IN IF Len(text) > max_chars
       THEN JObj(Pop(Pop(context, "changes"), "uncertainties"))
       ELSE text

\* lines 788-794
compact(context, max_chars) ==
    LET text == JObj(context)
    IN IF Len(text) > max_chars
       THEN Slice(JObj(Pop(Pop(context, "changes"), "uncertainties")), max_chars)
       ELSE text

_context_from_metrics(ms, cavs, snapshots, order, max_chars) ==
    compact(context_of(derived_of(ms, snapshots), ms, cavs, order), max_chars)

(***************************************************************************)
(* _date_range, _ask_llm, _fallback_summary                                *)
(***************************************************************************)
_date_range_month_default(period, today) ==
    IF period = "last_90_days" THEN <<today - 90, today>>
    ELSE <<today - 30, today>>

\* <<start, end>> for a period, end being today's UTC date
_date_range(period, today) ==
    IF period = "last_month" THEN <<today - 30, today>>
    ELSE IF period = "last_90_days" THEN <<today - 90, today>>
    ELSE <<today - 365, today>>

\* What the narrative generator's endpoint does with the one POST.
LlmOutcomes == {"ok", "timeout", "connection_error", "http_error", "not_json",
                "empty_choices", "no_content"}

GeneratedText == "1) Executive Summary"

raises_except_http_status(outcome) ==
    outcome \in {"timeout", "connection_error", "not_json", "empty_choices"}

\* lines 529-533: requests.post raises on a timeout or a connection error,
\* raise_for_status on a non-2xx status, resp.json() on a body that is not
\* JSON, and [][0] on an empty choices list.
ask_llm_raises(outcome) ==
    outcome \in {"timeout", "connection_error", "http_error", "not_json",
                 "empty_choices"}

\* line 533: the content of the first choice, "" when it has none
ask_llm_content(outcome) == IF outcome = "ok" THEN GeneratedText ELSE ""

\* A category row is [name_col, name, value_col, value]: the one name column
\* and the one value column the category queries return per row.
\* repr of the row as a dict
CategoryRepr(cat) ==
    "{'" \o cat.name_col \o "': '" \o cat.name \o "', '" \o cat.value_col \o "': "
        \o IntStr(cat.value) \o "}"

CategoriesStr_all(categories) ==
    "[" \o Join(MapSeq(CategoryRepr, categories), ", ") \o "]"

\* str(list[:3]) of category rows; the summaries of build_context have none.
CategoriesStr(categories) ==
    "[" \o Join(MapSeq(CategoryRepr, Take(categories, 3)), ", ") \o "]"

SummaryLine(summary) ==
    "- " \o summary.plugin \o ": " \o IntStr(Len(summary.monthly)) \o " months, "
        \o "latest="
        \o (IF summary.monthly /= <<>> THEN FloatStr(summary.monthly[1].value) ELSE "0")
        \o ", " \o "top categories: " \o CategoriesStr(summary.categories)

TrendName(trend) == trend.name

_fallback_summary(ctx) ==
    Join(<<"LLM unavailable; local fallback summary.">>
         \o MapSeq(SummaryLine, ctx.summaries)
         \o (IF ctx.emerging /= <<>>
             THEN <<"Emerging: " \o Join(MapSeq(TrendName, ctx.emerging), ", ")>>
             ELSE <<>>)
         \o (IF ctx.declining /= <<>>
             THEN <<"Declining: " \o Join(MapSeq(TrendName, ctx.declining), ", ")>>
             ELSE <<>>)
         \o (IF ctx.data_gaps /= <<>>
             THEN <<"Data gaps: " \o Join(ctx.data_gaps, "; ")>> ELSE <<>>),
         "\n")

(***************************************************************************)
(* Specification of _window_ranges alone, over a range of anchor dates     *)
(***************************************************************************)
IdleWindows ==
    /\ end_date = AnchorDay
    /\ windows = NoValue

IdleValidate ==
    /\ collected = <<>>
    /\ metrics = <<>>
    /\ caveats = <<>>
    /\ enum_qualified = FALSE

IdleStreak ==
    /\ series = <<>>
    /\ threshold = DefaultThreshold
    /\ row_index = 0
    /\ streak = 0
    /\ longest = 0
    /\ last_day = 0

IdleHelper ==
    /\ args = <<>>
    /\ ret = <<>>
    /\ locals = <<>>

IdleService ==
    /\ max_context_chars = MaxContextCap
    /\ tables = <<>>
    /\ entry = NoValue
    /\ start_date = AnchorDay
    /\ next_source = 1
    /\ source_snapshots = <<>>
    /\ derived = <<>>
    /\ context_text = ""
    /\ payload = <<>>
    /\ stages = <<>>
    /\ http_posts = 0
    /\ llm_outcome = NoValue
    /\ result = NoValue
    /\ raised = <<>>

InitWindows ==
    /\ end_date \in AnchorDay..(AnchorDay + DateSpan)
    /\ windows = NoValue
    /\ IdleValidate
    /\ IdleStreak
    /\ IdleService
    /\ IdleHelper
    /\ pc = "window_ranges"

WindowRanges ==
    /\ pc = "window_ranges"
    /\ windows' = _window_ranges(end_date)
    /\ pc' = "done"
    /\ UNCHANGED <<end_date, validate_vars, streak_vars, service_vars, helper_vars, call_vars>>

NextWindows == WindowRanges

SpecWindows == InitWindows /\ [][NextWindows]_vars

(***************************************************************************)
(* Specification of _validate_metrics alone, over bounded metric lists     *)
(***************************************************************************)
\* Metric identity is (name, source, window): the collector appends at most
\* one metric per source and window.
UniqueKeys(ms) ==
    \A i, j \in 1..Len(ms) :
        (ms[i].source = ms[j].source /\ ms[i].window = ms[j].window) => i = j

ValidatorSources == {"toggl", "habitica"}

ValidatorWindows == {"LAST_30_DAYS", "PRIOR_30_DAYS", "LAST_90_DAYS"}

ValidatorMetrics ==
    {Metric(s, w, v, 0) : s \in ValidatorSources, w \in ValidatorWindows,
                          v \in (-1)..MaxValue}

InitValidate ==
    /\ IdleWindows
    /\ IdleStreak
    /\ IdleService
    /\ IdleHelper
    /\ collected \in {ms \in UNION {[1..n -> ValidatorMetrics] : n \in 0..MaxMetrics} :
                        UniqueKeys(ms)}
    /\ metrics = <<>>
    /\ caveats = <<>>
    /\ enum_qualified \in BOOLEAN
    /\ pc = "validate"

ValidateMetrics ==
    /\ pc = "validate"
    /\ LET out == _validate_metrics(collected, enum_qualified)
       IN /\ metrics' = out.final
          /\ caveats' = out.caveats
    /\ pc' = "done"
    /\ UNCHANGED <<windows_vars, streak_vars, service_vars, helper_vars, call_vars, collected,
                   enum_qualified>>

NextValidate == ValidateMetrics

SpecValidate == InitValidate /\ [][NextValidate]_vars

(***************************************************************************)
(* Specification of _streak_from_series alone: the loop runs one row per   *)
(* step over bounded series, as the repository returns them (one row per   *)
(* day, latest day first)                                                  *)
(***************************************************************************)
SeriesDays == (AnchorDay - MaxSeriesDays)..(AnchorDay - 1)

SeriesValues == {0, DefaultThreshold, StepsThreshold}

InitStreak ==
    /\ IdleWindows
    /\ IdleValidate
    /\ IdleService
    /\ IdleHelper
    /\ \E days \in SUBSET SeriesDays :
          \E values \in [days -> SeriesValues] :
              series = RowsDesc({[day |-> d, val |-> values[d]] : d \in days},
                                "completed")
    /\ threshold \in {DefaultThreshold, StepsThreshold}
    /\ row_index = 0
    /\ streak = 0
    /\ longest = 0
    /\ last_day = 0
    /\ pc = "streak_loop"

StreakLoop ==
    /\ pc = "streak_loop"
    /\ row_index < Len(series)
    /\ LET st == streak_step([streak |-> streak, longest |-> longest,
                              last_day |-> last_day],
                             SortByDay(series)[row_index + 1], threshold)
       IN /\ streak' = st.streak
          /\ longest' = st.longest
          /\ last_day' = st.last_day
    /\ row_index' = row_index + 1
    /\ UNCHANGED <<windows_vars, validate_vars, service_vars, helper_vars, call_vars, series,
                   threshold, pc>>

StreakReturn ==
    /\ pc = "streak_loop"
    /\ row_index = Len(series)
    /\ pc' = "done"
    /\ UNCHANGED <<windows_vars, validate_vars, streak_vars, service_vars, helper_vars, call_vars>>

NextStreak == StreakLoop \/ StreakReturn

SpecStreak == InitStreak /\ [][NextStreak]_vars

(***************************************************************************)
(* Specification of the service: chat and generate_progress_summary run    *)
(* build_context over the plugin tables and hand its context to _ask_llm   *)
(***************************************************************************)
ConfiguredBudgets == {MinBudget, MidBudget, MaxContextCap + MaxContextCap}

\* The size of one day's value in each source's table.
DayUnit(source) ==
    CASE source = "asana" -> 1
      [] source = "toggl" -> 30
      [] source = "habitica" -> 1
      [] source = "google_fit" -> 1000

\* A row `off` days before the anchor date.
DayRow(off, val) == [day |-> AnchorDay - off, val |-> val]

AbsentTable == [exists |-> FALSE, rows |-> {}]

\* Three active days in a row, just before the anchor date.
RecentTable(u) ==
    [exists |-> TRUE, rows |-> {DayRow(1, u), DayRow(2, 2 * u), DayRow(3, u)}]

\* Less in the last 30 days than in the 30 days before.
FadingTable(u) ==
    [exists |-> TRUE, rows |-> {DayRow(2, 2 * u), DayRow(40, 6 * u), DayRow(100, u)}]

\* A day whose stored value is negative.
NegativeTable(u) == [exists |-> TRUE, rows |-> {DayRow(1, -u), DayRow(35, u)}]

\* A correction row between 30 and 90 days back: the last 30 days sum to
\* more than the last 90.
CorrectedTable(u) == [exists |-> TRUE, rows |-> {DayRow(1, 3 * u), DayRow(40, -u)}]

\* Active between 30 and 90 days back, and not since.
LapsedTable(u) == [exists |-> TRUE, rows |-> {DayRow(40, 2 * u), DayRow(41, u)}]

\* BusyDays active days in a row.
BusyTable(u) ==
    [exists |-> TRUE,
     rows |-> {DayRow(off, IF off % 2 = 0 THEN 2 * u ELSE 3 * u) : off \in 1..BusyDays}]

TableCatalogue(source) ==
    LET u == DayUnit(source)
    IN CASE source = "asana" -> {AbsentTable, RecentTable(u), BusyTable(u), LapsedTable(u)}
         [] source = "toggl" -> {AbsentTable, FadingTable(u), NegativeTable(u),
                                 CorrectedTable(u)}
         [] source = "habitica" -> {AbsentTable, RecentTable(u)}
         [] source = "google_fit" -> {AbsentTable, FadingTable(u), RecentTable(u)}

Today == AnchorDay

Init ==
    /\ IdleWindows
    /\ IdleStreak
    /\ collected = <<>>
    /\ metrics = <<>>
    /\ caveats = <<>>
    /\ enum_qualified \in BOOLEAN
    /\ max_context_chars \in {max_context_chars_of(c) : c \in ConfiguredBudgets}
    /\ tables \in {t \in [SourceSet -> UNION {TableCatalogue(src) : src \in SourceSet}] :
                     \A src \in SourceSet : t[src] \in TableCatalogue(src)}
    /\ entry = NoValue
    /\ start_date = Today
    /\ next_source = 1
    /\ source_snapshots = <<>>
    /\ derived = <<>>
    /\ context_text = ""
    /\ payload = <<>>
    /\ stages = <<>>
    /\ http_posts = 0
    /\ llm_outcome = NoValue
    /\ result = NoValue
    /\ raised = <<>>
    /\ IdleHelper
    /\ pc = "idle"

\* The stage log with `stage` entered.
Enter(stage) ==
    IF stages /= <<>> /\ stages[Len(stages)] = stage THEN stages
    ELSE Append(stages, stage)

\* An exception that nothing catches between the query and the caller.
Propagate(stage, source) ==
    /\ raised' = <<[stage |-> stage, source |-> source, error |-> "query_error"]>>
    /\ pc' = "raised"

\* chat, lines 201-202
Chat ==
    /\ pc = "idle"
    /\ entry' = "chat"
    /\ start_date' = _date_range("last_12_months", Today)[1]
    /\ end_date' = _date_range("last_12_months", Today)[2]
    /\ pc' = "build_context"
    /\ UNCHANGED <<windows, validate_vars, streak_vars, service_vars, helper_vars, next_source,
                   source_snapshots, derived, context_text, payload, stages,
                   http_posts, llm_outcome, result, raised>>

\* generate_progress_summary, lines 178-179
GenerateProgressSummary ==
    /\ pc = "idle"
    /\ entry' = "generate_progress_summary"
    /\ start_date' = _date_range("last_month", Today)[1]
    /\ end_date' = _date_range("last_month", Today)[2]
    /\ pc' = "build_context"
    /\ UNCHANGED <<windows, validate_vars, streak_vars, service_vars, helper_vars, next_source,
                   source_snapshots, derived, context_text, payload, stages,
                   http_posts, llm_outcome, result, raised>>

\* build_context, lines 84-88
BuildContext ==
    /\ pc = "build_context"
    /\ windows' = _window_ranges(end_date)
    /\ collected' = <<>>
    /\ caveats' = <<>>
    /\ source_snapshots' = <<>>
    /\ next_source' = 1
    /\ pc' = "collect"
    /\ UNCHANGED <<end_date, metrics, enum_qualified, streak_vars, service_vars, helper_vars,
                   entry, start_date, derived, context_text, payload, stages,
                   http_posts, llm_outcome, result, raised>>

\* The windows the collector asks each source's totals for, in order.
CollectWindows(source) ==
    IF source = "asana" THEN <<"LAST_30_DAYS", "PRIOR_30_DAYS">>
    ELSE <<"LAST_30_DAYS", "PRIOR_30_DAYS", "LAST_90_DAYS", "PRIOR_90_DAYS">>

\* lines 92-140 for one source: a metric for each window whose totals row is
\* not empty.
Collect(source, table, ranges) ==
    LET metric_of(w) ==
            LET row == totals(table, ranges[w][1], ranges[w][2])
            IN [found |-> row /= <<>>,
                metric |-> IF row = <<>> THEN Metric(source, w, 0, 0)
                           ELSE Metric(source, w, row[1].value, row[1].coverage_days)]
        found(c) == c.found
        metric(c) == c.metric
    IN MapSeq(metric, SelectSeq(MapSeq(metric_of, CollectWindows(source)), found))

\* build_context, lines 92-140, one source at a time; a query that fails
\* raises out of build_context.
CollectSource ==
    /\ pc = "collect"
    /\ stages' = Enter("collect")
    /\ \E fault \in BOOLEAN :
          IF fault
          THEN /\ Propagate("collect", Sources[next_source])
               /\ UNCHANGED <<collected, next_source>>
          ELSE /\ collected' = collected \o Collect(Sources[next_source],
                                                    tables[Sources[next_source]],
                                                    windows)
               /\ next_source' = next_source + 1
               /\ pc' = IF next_source = Len(Sources) THEN "validate" ELSE "collect"
               /\ UNCHANGED raised
    /\ UNCHANGED <<windows_vars, metrics, caveats, enum_qualified, streak_vars,
                   service_vars, helper_vars, entry, start_date, source_snapshots, derived,
                   context_text, payload, http_posts, llm_outcome, result>>

\* build_context, lines 142-143
ValidateCollected ==
    /\ pc = "validate"
    /\ stages' = Enter("validate")
    /\ LET out == _validate_metrics(collected, enum_qualified)
       IN /\ metrics' = out.final
          /\ caveats' = caveats \o out.caveats
    /\ next_source' = 1
    /\ pc' = "snapshot"
    /\ UNCHANGED <<windows_vars, collected, enum_qualified, streak_vars,
                   service_vars, helper_vars, entry, start_date, source_snapshots, derived,
                   context_text, payload, http_posts, llm_outcome, result, raised>>

\* lines 148-155
snapshot_of(series_30, series_90) ==
    [presence |-> _presence(series_30, 30),
     consistency |-> _consistency(series_30, 30),
     streaks |-> _streak_from_series(series_30, DefaultThreshold),
     best |-> _best_from_series(series_30),
     momentum |-> _momentum(series_30, series_90)]

\* build_context, lines 146-156, one source at a time. file_present: whether
\* the query file of habitica_daily / google_fit_daily_steps is installed.
SnapshotSource ==
    /\ pc = "snapshot"
    /\ stages' = Enter("presence")
    /\ \E file_present \in BOOLEAN, fault \in BOOLEAN :
          LET source == Sources[next_source]
              series_30 == _daily_series(source, tables[source],
                                         windows["LAST_30_DAYS"], file_present)
              series_90 == _daily_series(source, tables[source],
                                         windows["LAST_90_DAYS"], file_present)
          IN IF fault \/ series_30.raised \/ series_90.raised
             THEN /\ Propagate("presence", source)
                  /\ UNCHANGED <<source_snapshots, next_source>>
             ELSE /\ source_snapshots' =
                        (source :> snapshot_of(series_30.rows, series_90.rows))
                        @@ source_snapshots
                  /\ next_source' = next_source + 1
                  /\ pc' = IF next_source = Len(Sources) THEN "payload"
                           ELSE "snapshot"
                  /\ UNCHANGED raised
    /\ UNCHANGED <<windows_vars, validate_vars, streak_vars, service_vars, helper_vars, entry,
                   start_date, derived, context_text, payload, http_posts,
                   llm_outcome, result>>

PluginSummary(plugin) == [plugin |-> plugin, monthly |-> <<>>, categories |-> <<>>]

\* build_context, lines 158-172
BuildPayload ==
    /\ pc = "payload"
    /\ payload' = [start_date |-> start_date, end_date |-> end_date,
                   summaries |-> MapSeq(PluginSummary, Sources),
                   emerging |-> <<>>, declining |-> <<>>, anomalies |-> <<>>,
                   data_gaps |-> caveats]
    /\ pc' = "derive"
    /\ UNCHANGED <<windows_vars, validate_vars, streak_vars, service_vars, helper_vars, entry,
                   start_date, next_source, source_snapshots, derived,
                   context_text, stages, http_posts, llm_outcome, result, raised>>

\* _context_from_metrics, lines 764-779: the phase classification
DerivePhases ==
    /\ pc = "derive"
    /\ stages' = Enter("classify")
    /\ derived' = derived_of(metrics, source_snapshots)
    /\ pc' = "compact"
    /\ UNCHANGED <<windows_vars, validate_vars, streak_vars, service_vars, helper_vars, entry,
                   start_date, next_source, source_snapshots, context_text,
                   payload, http_posts, llm_outcome, result, raised>>

\* The orders in which iterating the set literal of line 713 can yield the
\* source names.
RECURSIVE SourceOrders(_)
SourceOrders(names) ==
    IF names = {} THEN {<<>>}
    ELSE UNION {{<<first>> \o rest : rest \in SourceOrders(names \ {first})} :
                first \in names}

\* _context_from_metrics, lines 781-794, and the return of build_context
CompactContext ==
    /\ pc = "compact"
    /\ stages' = Enter("compact")
    /\ \E order \in SourceOrders(SourceSet) :
          context_text' = compact(context_of(derived, metrics, caveats, order),
                                  max_context_chars)
    /\ pc' = "ask_llm"
    /\ UNCHANGED <<windows_vars, validate_vars, streak_vars, service_vars, helper_vars, entry,
                   start_date, next_source, source_snapshots, derived, payload,
                   http_posts, llm_outcome, result, raised>>

\* _ask_llm, lines 487-535, inside the try of the entry point
AskLlm ==
    /\ pc = "ask_llm"
    /\ stages' = Enter("generate")
    /\ http_posts' = http_posts + 1
    /\ \E outcome \in LlmOutcomes :
          /\ llm_outcome' = outcome
          /\ IF ask_llm_raises(outcome)
             THEN /\ pc' = "fallback"
                  /\ UNCHANGED result
             ELSE /\ result' = ask_llm_content(outcome)
                  /\ pc' = "returned"
    /\ UNCHANGED <<windows_vars, validate_vars, streak_vars, service_vars, helper_vars, entry,
                   start_date, next_source, source_snapshots, derived,
                   context_text, payload, raised>>

\* The except branch of the entry point: _fallback_summary, lines 537-551
Fallback ==
    /\ pc = "fallback"
    /\ stages' = Enter("fallback")
    /\ result' = _fallback_summary(payload)
    /\ pc' = "returned"
    /\ UNCHANGED <<windows_vars, validate_vars, streak_vars, service_vars, helper_vars, entry,
                   start_date, next_source, source_snapshots, derived,
                   context_text, payload, http_posts, llm_outcome, raised>>

Next ==
    \/ Chat
    \/ GenerateProgressSummary
    \/ BuildContext
    \/ CollectSource
    \/ ValidateCollected
    \/ SnapshotSource
    \/ BuildPayload
    \/ DerivePhases
    \/ CompactContext
    \/ AskLlm
    \/ Fallback

Spec == Init /\ [][Next]_vars

(***************************************************************************)
(* Helpers of the properties                                               *)
(***************************************************************************)
\* sub occurs in text
Contains(text, sub) ==
    \E k \in 1..(Len(text) - Len(sub) + 1) : SubSeq(text, k, k + Len(sub) - 1) = sub

SeqToSet(s) == {s[i] : i \in 1..Len(s)}

Count(s, x) == Cardinality({i \in 1..Len(s) : s[i] = x})

(***************************************************************************)
(* Properties of _validate_metrics (SpecValidate)                          *)
(***************************************************************************)
\* C1: the list _validate_metrics returns holds no metric with value < 0, and
\* every input metric with value < 0 is absent from it and has a caveat that
\* names its name, source and window.
C1_NoNegativeInValidated ==
    pc = "done" =>
        /\ \A i \in 1..Len(metrics) : metrics[i].value >= 0
        /\ \A i \in 1..Len(collected) :
              collected[i].value < 0 =>
                  /\ collected[i] \notin SeqToSet(metrics)
                  /\ \E k \in 1..Len(caveats) :
                        /\ Contains(caveats[k], "negative")
                        /\ Contains(caveats[k], collected[i].name)
                        /\ Contains(caveats[k], collected[i].source)
                        /\ Contains(caveats[k], collected[i].window)

C1_Witness ==
    /\ pc = "done"
    /\ \E i \in 1..Len(collected) : collected[i].value < 0
    /\ metrics /= <<>>

\* The LAST_90_DAYS values recorded in the input for a metric's (source, name)
Recorded90(m) ==
    {collected[j].value : j \in {j \in 1..Len(collected) :
        /\ collected[j].source = m.source
        /\ collected[j].name = m.name
        /\ collected[j].window = "LAST_90_DAYS"}}

\* C2: a non-negative metric is missing from the validated list if and only if
\* it is a LAST_30_DAYS metric whose value is strictly greater than the
\* LAST_90_DAYS value recorded for its (source, name), and then exactly one
\* explanatory caveat is recorded for it; so a LAST_90_DAYS metric, a metric of
\* another window, and a 30-day metric with no recorded 90-day figure all stay.
C2_Drop30IffExceeds90 ==
    pc = "done" =>
        \A i \in 1..Len(collected) :
            LET m == collected[i]
                exceeds == /\ m.window = "LAST_30_DAYS"
                           /\ \E v90 \in Recorded90(m) : m.value > v90
            IN m.value >= 0 =>
                  /\ (m \notin SeqToSet(metrics)) <=> exceeds
                  /\ m.window = "LAST_30_DAYS" =>
                        Count(caveats, ExceedCaveat(m)) = (IF exceeds THEN 1 ELSE 0)

C2_Witness ==
    /\ pc = "done"
    /\ \E i, j \in 1..Len(collected) :
          /\ collected[i].source = collected[j].source
          /\ collected[i].window = "LAST_30_DAYS"
          /\ collected[j].window = "LAST_90_DAYS"
          /\ collected[j].value >= 0
          /\ collected[i].value > collected[j].value
          /\ collected[i] \notin SeqToSet(metrics)
          /\ collected[j] \in SeqToSet(metrics)

(***************************************************************************)
(* Properties of _window_ranges (SpecWindows)                              *)
(***************************************************************************)
WindowStart(w) == windows[w][1]

WindowEnd(w) == windows[w][2]

\* C8: every window is anchored at the offsets 7, 30, 60, 90, 180 days before
\* the end date, PRIOR_N_DAYS ends exactly where LAST_N_DAYS starts, and both
\* are N days long, for N = 30 and N = 90.
C8_WindowOffsets ==
    pc = "done" =>
        /\ WindowEnd("LAST_7_DAYS") = end_date
        /\ WindowEnd("LAST_30_DAYS") = end_date
        /\ WindowEnd("LAST_90_DAYS") = end_date
        /\ WindowEnd("LAST_7_DAYS") - WindowStart("LAST_7_DAYS") = 7
        /\ WindowEnd("PRIOR_30_DAYS") = WindowStart("LAST_30_DAYS")
        /\ WindowEnd("PRIOR_90_DAYS") = WindowStart("LAST_90_DAYS")
        /\ \A w \in {"LAST_30_DAYS", "PRIOR_30_DAYS"} : WindowEnd(w) - WindowStart(w) = 30
        /\ \A w \in {"LAST_90_DAYS", "PRIOR_90_DAYS"} : WindowEnd(w) - WindowStart(w) = 90
        /\ DOMAIN windows = WindowNames

C8_Witness ==
    /\ pc = "done"
    /\ end_date > AnchorDay
    /\ WindowStart("PRIOR_90_DAYS") = end_date - 180

(***************************************************************************)
(* Properties of _streak_from_series (SpecStreak)                          *)
(***************************************************************************)
\* The series in chronological order: the repository returns it latest first.
Chrono == [i \in 1..Len(series) |-> series[Len(series) + 1 - i]]

\* The length of the run of entries with value >= t on consecutive calendar
\* days that ends at entry i of rows (0 when entry i does not qualify).
RunEndingAt(rows, i, t) ==
    LET runs == {k \in 0..i :
                    /\ \A j \in (i - k + 1)..i : rows[j].val >= t
                    /\ \A j \in (i - k + 2)..i : rows[j].day - rows[j - 1].day = 1}
    IN CHOOSE k \in runs : \A l \in runs : l <= k

\* C10: after each entry of the chronological walk, current is the length of
\* the run of qualifying entries on consecutive days that ends at that entry
\* (0 right after a non-qualifying entry), and longest is the greatest value
\* current has taken so far; the values returned are those after the last entry.
C10_StreakIsRunAtLastEntry ==
    pc \in {"streak_loop", "done"} =>
        /\ streak = RunEndingAt(Chrono, row_index, threshold)
        /\ \A k \in 0..row_index : longest >= RunEndingAt(Chrono, k, threshold)
        /\ \E k \in 0..row_index : longest = RunEndingAt(Chrono, k, threshold)
        /\ row_index > 0 => last_day = Chrono[row_index].day
        /\ pc = "done" => row_index = Len(series)

\* values [1,1,0,1,1,1] on consecutive days with threshold 1: longest 3, current 3
C10_Witness ==
    /\ pc = "done"
    /\ threshold = 1
    /\ Len(series) = 6
    /\ \A i \in 1..6 : Chrono[i].day = AnchorDay - 7 + i
    /\ <<Chrono[1].val, Chrono[2].val, Chrono[3].val,
         Chrono[4].val, Chrono[5].val, Chrono[6].val>> = <<1, 1, 0, 1, 1, 1>>
    /\ streak = 3
    /\ longest = 3

(***************************************************************************)
(* The service: build_context, chat, generate_progress_summary             *)
(***************************************************************************)
\* build_context has returned its context text and payload.
Built == pc \in {"ask_llm", "fallback", "returned"}

\* The serialization of the context dict before anything is dropped; the
\* order of the change lines does not change its length.
NaturalText ==
    JObj(context_of(derived, metrics, caveats,
                    Sources))

\* The serialization after "changes" and "uncertainties" are dropped.
ReducedText ==
    JObj(Pop(Pop(context_of(derived, metrics, caveats, <<>>), "changes"),
             "uncertainties"))

\* C3: the context text build_context returns is never longer than
\* max_context_chars, and max_context_chars is never more than 6000.
C3_ContextWithinBudget ==
    /\ max_context_chars <= 6000
    /\ Built => Len(context_text) <= max_context_chars

\* C3 witness: build_context has returned a context whose full serialization
\* was longer than the budget.
C3_Witness ==
    /\ Built
    /\ Len(NaturalText) > max_context_chars
    /\ context_text /= ""

EndsWith(text, suffix) ==
    /\ Len(text) >= Len(suffix)
    /\ SubSeq(text, Len(text) - Len(suffix) + 1, Len(text)) = suffix

\* C4: a context that is still over the budget after its sections are
\* dropped, and so is cut to the budget, ends with the truncation marker.
C4_TruncatedEndsWithMarker ==
    (Built /\ Len(NaturalText) > max_context_chars
           /\ Len(ReducedText) > max_context_chars)
        => EndsWith(context_text, "... (truncated)")

\* C5: an invocation posts to the generator at most once; when the post
\* raises (timeout, connection error, non-2xx status, unreadable body) the
\* invocation goes to the fallback, returns _fallback_summary(payload), and
\* raises nothing.
C5_OnePostThenFallback ==
    /\ http_posts <= 1
    /\ llm_outcome \in {"timeout", "connection_error", "http_error", "not_json",
                        "empty_choices"}
          => /\ pc \in {"fallback", "returned"}
             /\ raised = <<>>
             /\ pc = "returned" => result = _fallback_summary(payload)

\* C5 witness: the generator answered with a non-2xx status and the
\* invocation returned the fallback summary after its one post.
C5_Witness ==
    /\ pc = "returned"
    /\ llm_outcome = "http_error"
    /\ http_posts = 1
    /\ result = _fallback_summary(payload)

\* The sources whose metrics are in a metric list.
SourcesOf(ms) == {ms[i].source : i \in 1..Len(ms)}

\* Some caveat names the source.
NotedAsGap(notes, source) == \E i \in 1..Len(notes) : Contains(notes[i], source)

\* C6: with a source's table absent, build_context returns, has no metric of
\* that source, and has a data-gap note for it in the caveats and in
\* payload.data_gaps.
C6_AbsentTableIsDataGap ==
    Built => \A source \in SourceSet :
                 ~tables[source].exists
                 => /\ source \notin SourcesOf(collected)
                    /\ NotedAsGap(caveats, source)
                    /\ NotedAsGap(payload.data_gaps, source)

\* C7: a query error of one source does not leave build_context: it becomes
\* a data-gap note, and the other sources are still collected.
C7_QueryErrorIsCaughtPerSource ==
    /\ pc /= "raised"
    /\ raised = <<>>

\* C9: when the phase classification starts, collection, validation and the
\* three analyses (presence, theme clustering, correlation) have run, in that
\* order of stages; the generator starts after compaction, the fallback
\* after the generator.
Before(first, second) ==
    \A j \in 1..Len(stages) :
        stages[j] = second => \E i \in 1..(j - 1) : stages[i] = first

C9_StagesInOrder ==
    /\ Before("collect", "validate")
    /\ Before("validate", "presence")
    /\ Before("validate", "themes")
    /\ Before("validate", "correlations")
    /\ Before("presence", "classify")
    /\ Before("themes", "classify")
    /\ Before("correlations", "classify")
    /\ Before("classify", "compact")
    /\ Before("compact", "generate")
    /\ Before("generate", "fallback")

(***************************************************************************)
(* Specifications of single helper methods: the arguments are drawn from   *)
(* bounded sets and the one action is the call                             *)
(***************************************************************************)
IdleAll ==
    /\ IdleWindows
    /\ IdleValidate
    /\ IdleStreak
    /\ IdleService

service_all == <<windows_vars, validate_vars, streak_vars, service_vars, call_vars>>

(***************************************************************************)
(* _date_range                                                             *)
(***************************************************************************)
Periods == {"last_month", "last_90_days", "last_12_months", "last_week", ""}

InitDateRange ==
    /\ IdleAll
    /\ args \in [period : Periods, today : AnchorDay..(AnchorDay + DateSpan)]
    /\ ret = <<>>
    /\ locals = <<>>
    /\ pc = "_date_range"

DateRange ==
    /\ pc = "_date_range"
    /\ ret' = _date_range(args.period, args.today)
    /\ pc' = "done"
    /\ UNCHANGED <<service_all, args, locals>>

NextDateRange == DateRange

SpecDateRange == InitDateRange /\ [][NextDateRange]_vars

\* C16: _date_range ends at today's UTC date and spans 30 days for
\* "last_month" (between 28 and 31), 90 days for "last_90_days" and 365 days
\* for every other period.
C16_DateRangeSpans ==
    pc = "done" =>
        /\ ret[2] = args.today
        /\ args.period = "last_month" =>
              /\ ret[2] - ret[1] = 30
              /\ 28 <= ret[2] - ret[1] /\ ret[2] - ret[1] <= 31
        /\ args.period = "last_90_days" => ret[2] - ret[1] = 90
        /\ args.period \notin {"last_month", "last_90_days"} => ret[2] - ret[1] = 365

\* C16 witness: a "last_month" call has returned a 30-day span.
C16_Witness ==
    /\ pc = "done"
    /\ args.period = "last_month"
    /\ ret[1] = args.today - 30

(***************************************************************************)
(* _momentum                                                               *)
(***************************************************************************)
MaxSeriesRows == 2         \* rows of a series handed to _momentum
MaxDayValue == 4           \* day values handed to _momentum: -1 .. MaxDayValue

\* Series of at most MaxSeriesRows rows, latest day first.
MomentumSeries ==
    UNION {[1..n -> [day : {AnchorDay}, col : {"minutes"}, val : -1..MaxDayValue]] :
             n \in 0..MaxSeriesRows}

InitMomentum ==
    /\ IdleAll
    /\ args \in [series_30 : MomentumSeries, series_90 : MomentumSeries]
    /\ ret = <<>>
    /\ locals = <<>>
    /\ pc = "_momentum"

Momentum ==
    /\ pc = "_momentum"
    /\ ret' = _momentum(args.series_30, args.series_90)
    /\ pc' = "done"
    /\ UNCHANGED <<service_all, args, locals>>

NextMomentum == Momentum

SpecMomentum == InitMomentum /\ [][NextMomentum]_vars

RECURSIVE SumOfVals(_)
SumOfVals(rows) == IF rows = <<>> THEN 0 ELSE Head(rows).val + SumOfVals(Tail(rows))

\* total_30 / total_90 >= tenths / 10, for total_90 /= 0
RatioAtLeastTenths(total_30, total_90, tenths) ==
    \/ total_90 > 0 /\ 10 * total_30 >= tenths * total_90
    \/ total_90 < 0 /\ 10 * total_30 <= tenths * total_90

\* C19: _momentum is "paused" exactly when sum(last_90) = 0; otherwise it is
\* "rising" exactly when the ratio is >= 0.6, "stable" exactly when it is in
\* [0.3, 0.6), and "cooling" exactly when it is < 0.3.
C19_MomentumByRatio ==
    pc = "done" =>
        LET total_30 == SumOfVals(args.series_30)
            total_90 == SumOfVals(args.series_90)
        IN /\ ret \in {"paused", "rising", "stable", "cooling"}
           /\ ret = "paused" <=> total_90 = 0
           /\ total_90 /= 0 =>
                 /\ ret = "rising" <=> RatioAtLeastTenths(total_30, total_90, 6)
                 /\ ret = "stable" <=> /\ RatioAtLeastTenths(total_30, total_90, 3)
                                       /\ ~RatioAtLeastTenths(total_30, total_90, 6)
                 /\ ret = "cooling" <=> ~RatioAtLeastTenths(total_30, total_90, 3)

\* C19 witness: a call whose ratio is exactly 0.6 (3 of 5) returned "rising".
C19_Witness ==
    /\ pc = "done"
    /\ SumOfVals(args.series_30) = 3
    /\ SumOfVals(args.series_90) = 5
    /\ ret = "rising"

(***************************************************************************)
(* _derive_phase_and_signals                                               *)
(***************************************************************************)
\* active_ratio values, in hundredths, on both sides of each threshold
ActiveRatios == {0, 1, 29, 30, 31, 49, 50, 51, 59, 60, 61, 100}

Momenta == {"rising", "stable", "cooling", "paused"}

\* A snapshot with the three fields the lookups read set freely.
SnapshotWith(momentum, active_ratio, burstiness) ==
    [presence |-> [days_active |-> 0, window_days |-> 30, longest_gap_days |-> 30],
     consistency |-> [empty |-> FALSE, active_ratio |-> active_ratio, median2 |-> 2,
                      cv_defined |-> FALSE, cv |-> [sq |-> 0, sum |-> 0],
                      burstiness |-> burstiness],
     streaks |-> [current |-> 0, longest |-> 0],
     best |-> <<>>,
     momentum |-> momentum]

InitDerive ==
    /\ IdleAll
    /\ args \in [source : SourceSet, momentum : Momenta, active_ratio : ActiveRatios,
                 burstiness : {"spread", "clustered", NoValue}]
    /\ ret = <<>>
    /\ locals = <<>>
    /\ pc = "_derive_phase_and_signals"

DerivePhaseAndSignals ==
    /\ pc = "_derive_phase_and_signals"
    /\ ret' = _derive_phase_and_signals(
                  args.source,
                  SnapshotWith(args.momentum, args.active_ratio, args.burstiness))
    /\ pc' = "done"
    /\ UNCHANGED <<service_all, args, locals>>

NextDerive == DerivePhaseAndSignals

SpecDerive == InitDerive /\ [][NextDerive]_vars

\* C20: phase is "execution" iff rising and active_ratio >= 0.5, else
\* "maintenance" iff stable and active_ratio >= 0.3, else "recovery" iff
\* cooling, else "paused"; engagement is "steady" iff active_ratio >= 0.6 and
\* spread, else "focused" iff active_ratio >= 0.3 and not clustered, else
\* "fragmented" iff active_ratio > 0, else "sparse".
C20_PhaseAndEngagementLookup ==
    pc = "done" =>
        LET execution == args.momentum = "rising" /\ args.active_ratio >= 50
            maintenance == args.momentum = "stable" /\ args.active_ratio >= 30
            recovery == args.momentum = "cooling"
            steady == args.active_ratio >= 60 /\ args.burstiness = "spread"
            focused == args.active_ratio >= 30 /\ args.burstiness /= "clustered"
            fragmented == args.active_ratio > 0
        IN /\ ret.phase = "execution" <=> execution
           /\ ret.phase = "maintenance" <=> ~execution /\ maintenance
           /\ ret.phase = "recovery" <=> ~execution /\ ~maintenance /\ recovery
           /\ ret.phase = "paused" <=> ~execution /\ ~maintenance /\ ~recovery
           /\ ret.engagement = "steady" <=> steady
           /\ ret.engagement = "focused" <=> ~steady /\ focused
           /\ ret.engagement = "fragmented" <=> ~steady /\ ~focused /\ fragmented
           /\ ret.engagement = "sparse" <=> ~steady /\ ~focused /\ ~fragmented
           /\ ret.momentum = args.momentum

\* C20 witness: rising at exactly half the days active was classified as
\* execution, with a focused engagement (no burstiness recorded).
C20_Witness ==
    /\ pc = "done"
    /\ args.momentum = "rising"
    /\ args.active_ratio = 50
    /\ args.burstiness = NoValue
    /\ ret.phase = "execution"
    /\ ret.engagement = "focused"

(***************************************************************************)
(* The service: the sections dropped, the answers of the generator         *)
(***************************************************************************)
\* The serialization after "changes" alone is dropped.
WithoutChangesText ==
    JObj(Pop(context_of(derived, metrics, caveats, <<>>), "changes"))

\* C17: when the full serialization is over the budget and the one without
\* "changes" is within it, the returned text is the one without "changes",
\* which still carries the "uncertainties" section.
C17_UncertaintiesKeptWhenChangesSuffice ==
    (Built /\ Len(NaturalText) > max_context_chars
           /\ Len(WithoutChangesText) <= max_context_chars)
        => /\ context_text = WithoutChangesText
           /\ Contains(context_text, "\"uncertainties\"")

\* C18: when the generator answers 2xx with a malformed body (not JSON, an
\* empty choices list, a first choice without message.content), the
\* invocation returns the fallback text, never empty generator content.
C18_MalformedResponseFallsBack ==
    (pc = "returned" /\ llm_outcome \in {"not_json", "empty_choices", "no_content"})
        => /\ result = _fallback_summary(payload)
           /\ result /= ""

(***************************************************************************)
(* _fallback_summary                                                       *)
(***************************************************************************)
MaxSummaries == 2          \* summaries of a payload handed to _fallback_summary

TrendPoint(period, value) == [period |-> period, value |-> value]

CategoryRow(name, items) ==
    [name_col |-> "category", name |-> name, value_col |-> "items", value |-> items]

FallbackMonthly ==
    {<<>>, <<TrendPoint("2024-02", 20)>>,
     <<TrendPoint("2024-02", 5), TrendPoint("2024-01", 20)>>}

FallbackCategories ==
    {<<>>, <<CategoryRow("alpha", 4), CategoryRow("beta", 3), CategoryRow("gamma", 2),
             CategoryRow("delta", 1)>>}

FallbackSummaries ==
    [plugin : {"asana", "toggl"}, monthly : FallbackMonthly,
     categories : FallbackCategories]

FallbackTrends == {<<>>, <<[name |-> "asana_overall"]>>,
                   <<[name |-> "asana_overall"], [name |-> "toggl_overall"]>>}

InitFallback ==
    /\ IdleAll
    /\ args \in [summaries : UNION {[1..n -> FallbackSummaries] : n \in 0..MaxSummaries},
                 emerging : FallbackTrends,
                 declining : {<<>>, <<[name |-> "habitica_overall"]>>},
                 data_gaps : {<<>>, <<"no asana data">>,
                              <<"no asana data", "toggl partial">>}]
    /\ ret = <<>>
    /\ locals = <<>>
    /\ pc = "_fallback_summary"

FallbackSummary ==
    /\ pc = "_fallback_summary"
    /\ ret' = _fallback_summary(args)
    /\ pc' = "done"
    /\ UNCHANGED <<service_all, args, locals>>

NextFallback == FallbackSummary

SpecFallback == InitFallback /\ [][NextFallback]_vars

\* text.split("\n")
SplitLines(text) ==
    LET breaks == {i \in 1..Len(text) : SubSeq(text, i, i) = "\n"}
        break(k) == IF k = 0 THEN 0
                    ELSE IF k > Cardinality(breaks) THEN Len(text) + 1
                    ELSE CHOOSE b \in breaks : Cardinality({c \in breaks : c < b}) = k - 1
    IN [k \in 1..(Cardinality(breaks) + 1) |->
            SubSeq(text, break(k - 1) + 1, break(k) - 1)]

StartsWith(text, prefix) ==
    Len(text) >= Len(prefix) /\ SubSeq(text, 1, Len(prefix)) = prefix

Flag(b) == IF b THEN 1 ELSE 0

\* C15: the fallback text is not empty; it is the header line, one line per
\* summary in payload order with the plugin, its month count, its latest
\* value (0 without months) and at most its first 3 categories, then an
\* Emerging, a Declining and a Data gaps line, each there iff its list is
\* not empty.
C15_FallbackLines ==
    pc = "done" =>
        LET lines == SplitLines(ret)
            n == Len(args.summaries)
            tail == SubSeq(lines, n + 2, Len(lines))
            has(prefix) == \E i \in 1..Len(tail) : StartsWith(tail[i], prefix)
        IN /\ ret /= ""
           /\ lines[1] = "LLM unavailable; local fallback summary."
           /\ Len(lines) = 1 + n + Flag(args.emerging /= <<>>)
                             + Flag(args.declining /= <<>>)
                             + Flag(args.data_gaps /= <<>>)
           /\ \A i \in 1..n :
                 LET summary == args.summaries[i]
                     latest == IF summary.monthly = <<>> THEN "0"
                               ELSE IntStr(summary.monthly[1].value) \o ".0"
                 IN /\ StartsWith(lines[i + 1],
                                  "- " \o summary.plugin \o ": "
                                    \o IntStr(Len(summary.monthly)) \o " months, latest="
                                    \o latest \o ", top categories: [")
                    /\ \A k \in 1..Len(summary.categories) :
                          Contains(lines[i + 1], summary.categories[k].name) <=> k <= 3
           /\ has("Emerging: ") <=> args.emerging /= <<>>
           /\ has("Declining: ") <=> args.declining /= <<>>
           /\ has("Data gaps: ") <=> args.data_gaps /= <<>>
           /\ \A i \in 1..Len(tail) :
                 \/ StartsWith(tail[i], "Emerging: ")
                 \/ StartsWith(tail[i], "Declining: ")
                 \/ StartsWith(tail[i], "Data gaps: ")

\* C15 witness: a payload of two summaries, one with four categories and two
\* months, with emerging, declining and data-gap entries, was rendered.
C15_Witness ==
    /\ pc = "done"
    /\ Len(args.summaries) = 2
    /\ Len(args.summaries[1].categories) = 4
    /\ Len(args.summaries[1].monthly) = 2
    /\ args.summaries[2].monthly = <<>>
    /\ args.emerging /= <<>>
    /\ args.declining /= <<>>
    /\ args.data_gaps /= <<>>
    /\ Len(SplitLines(ret)) = 6

(***************************************************************************)
(* _detect_trends. Values are whole numbers (monthly counts) and the       *)
(* percent change is kept exact, as the pair it is a quotient of.          *)
(***************************************************************************)
\* round(num / den, 1) in tenths, ties to even, for den > 0
RoundTenths(num, den) ==
    LET q == (10 * num) \div den
        r == (10 * num) % den
    IN IF 2 * r > den THEN q + 1
       ELSE IF 2 * r < den THEN q
       ELSE IF q % 2 = 0 THEN q ELSE q + 1

\* change_pct >= pct, where change_pct is (last - prior) / prior * 100, or
\* 100.0 for a prior of 0
ChangeAtLeast(last, prior, pct) ==
    IF prior = 0 THEN 100 >= pct
    ELSE IF prior > 0 THEN (last - prior) * 100 >= pct * prior
    ELSE (last - prior) * 100 <= pct * prior

ChangeAtMost(last, prior, pct) ==
    IF prior = 0 THEN 100 <= pct
    ELSE IF prior > 0 THEN (last - prior) * 100 <= pct * prior
    ELSE (last - prior) * 100 >= pct * prior

direction_of_above(last, prior, emerge, decline) ==
    IF ChangeAtLeast(last, prior, emerge) /\ ~ChangeAtMost(last, prior, emerge)
    THEN "emerging"
    ELSE IF ChangeAtMost(last, prior, -decline) THEN "declining"
    ELSE "steady"

\* lines 260-264
direction_of(last, prior, emerge, decline) ==
    IF ChangeAtLeast(last, prior, emerge) THEN "emerging"
    ELSE IF ChangeAtMost(last, prior, -decline) THEN "declining"
    ELSE "steady"

\* round(change_pct, 1), in tenths
ChangeTenths(last, prior) ==
    IF prior = 0 THEN 1000
    ELSE IF prior > 0 THEN RoundTenths((last - prior) * 100, prior)
    ELSE RoundTenths((prior - last) * 100, -prior)

\* The list of trends: empty, or the one CategoryTrend of the plugin.
_detect_trends(summary, emerge, decline) ==
    IF Len(summary.monthly) < 2 THEN <<>>
    ELSE LET last == summary.monthly[1].value
             prior == summary.monthly[2].value
         IN IF prior = 0 /\ last = 0 THEN <<>>
            ELSE <<[name |-> summary.plugin \o "_overall",
                    source |-> summary.plugin,
                    last_value |-> last,
                    prior_value |-> prior,
                    change_pct |-> ChangeTenths(last, prior),
                    direction |-> direction_of(last, prior, emerge, decline)]>>

MaxMonths == 3             \* months of a summary handed to _detect_trends

\* Monthly values: the examples 20 / 10 and 5 / 20, and the pairs that lie on
\* a threshold (10 -> 15 is +50%, 10 -> 7 is -30%).
TrendValues == {0, 5, 7, 10, 13, 15, 20}

\* "2024-01", "2024-02", ...: the period of the i-th month back of n
PeriodOf(i) == "2024-" \o Pad2(i)

TrendMonthly ==
    UNION {{[i \in 1..n |-> TrendPoint(PeriodOf(n + 1 - i), values[i])] :
              values \in [1..n -> TrendValues]} : n \in 0..MaxMonths}

InitTrends ==
    /\ IdleAll
    /\ args \in [summary : [plugin : {"asana"}, monthly : TrendMonthly,
                            categories : {<<>>}],
                 emerge_threshold_pct : {50, 20},
                 decline_threshold_pct : {30}]
    /\ ret = <<>>
    /\ locals = <<>>
    /\ pc = "_detect_trends"

DetectTrends ==
    /\ pc = "_detect_trends"
    /\ ret' = _detect_trends(args.summary, args.emerge_threshold_pct,
                             args.decline_threshold_pct)
    /\ pc' = "done"
    /\ UNCHANGED <<service_all, args, locals>>

NextTrends == DetectTrends

SpecTrends == InitTrends /\ [][NextTrends]_vars

\* C13: with fewer than two months, or two zero values, no trend is
\* reported; otherwise exactly one, "emerging" when the change from the prior
\* to the latest value is >= emerge_threshold_pct percent (a zero prior
\* counting as +100%), "declining" when it is <= -decline_threshold_pct, and
\* "steady" otherwise; [20, 10] at 50 is emerging, [5, 20] at 30 declining.
C13_TrendDirection ==
    pc = "done" =>
        LET monthly == args.summary.monthly
            last == monthly[1].value
            prior == monthly[2].value
            emerge == args.emerge_threshold_pct
            decline == args.decline_threshold_pct
            emerging == IF prior = 0 THEN 100 >= emerge
                        ELSE 100 * (last - prior) >= emerge * prior
            declining == IF prior = 0 THEN 100 <= -decline
                         ELSE 100 * (last - prior) <= -decline * prior
        IN IF Len(monthly) < 2 THEN ret = <<>>
           ELSE IF last = 0 /\ prior = 0 THEN ret = <<>>
           ELSE /\ Len(ret) = 1
                /\ ret[1].direction = "emerging" <=> emerging
                /\ ret[1].direction = "declining" <=> ~emerging /\ declining
                /\ ret[1].direction = "steady" <=> ~emerging /\ ~declining
                /\ (last = 20 /\ prior = 10 /\ emerge = 50)
                      => ret[1].direction = "emerging"
                /\ (last = 5 /\ prior = 20 /\ decline = 30)
                      => ret[1].direction = "declining"

\* C13 witness: the months [15, 10] at the emerge threshold 50, a change of
\* exactly +50%, were reported as emerging.
C13_Witness ==
    /\ pc = "done"
    /\ Len(args.summary.monthly) >= 2
    /\ args.summary.monthly[1].value = 15
    /\ args.summary.monthly[2].value = 10
    /\ args.emerge_threshold_pct = 50
    /\ Len(ret) = 1
    /\ ret[1].direction = "emerging"

(***************************************************************************)
(* _compact_context                                                        *)
(***************************************************************************)
\* repr of the float tenths / 10
TenthsStr(tenths) ==
    (IF tenths < 0 THEN "-" ELSE "") \o ToString(Abs(tenths) \div 10) \o "."
        \o ToString(Abs(tenths) % 10)

\* json.dumps of a category row
JCategory(cat) ==
    JObj(<< <<cat.name_col, JStr(cat.name)>>, <<cat.value_col, IntStr(cat.value)>> >>)

\* json.dumps of {tp.period: tp.value}
JTrendPoint(tp) == JObj(<< <<tp.period, FloatStr(tp.value)>> >>)

\* json.dumps of trend.__dict__
JTrend(trend) ==
    JObj(<< <<"name", JStr(trend.name)>>, <<"source", JStr(trend.source)>>,
            <<"last_value", FloatStr(trend.last_value)>>,
            <<"prior_value", FloatStr(trend.prior_value)>>,
            <<"change_pct", TenthsStr(trend.change_pct)>>,
            <<"direction", JStr(trend.direction)>> >>)

\* lines 451-462: one entry of summaries_block, serialized; recent_30d and
\* recent_90d are the empty dicts PluginSummary defaults to.
JSummaryBlock(summary, window_months, top_n) ==
    JObj(<< <<"plugin", JStr(summary.plugin)>>,
            <<"monthly", JList(MapSeq(JTrendPoint, Take(summary.monthly, window_months)))>>,
            <<"categories", JList(MapSeq(JCategory, Take(summary.categories, top_n)))>>,
            <<"recent_30d", "{}">>,
            <<"recent_90d", "{}">> >>)

SourceNotes ==
    "All numbers are read-only rollups from plugin tables; source keys match plugin names. Only top relevant themes are surfaced; noise omitted."

\* lines 464-484: json.dumps of the context dict, for empty themes,
\* correlations, streaks, coverage and best
compact_context_text(ctx, top_n) ==
    LET block(summary) == JSummaryBlock(summary, ctx.window_months, top_n)
    IN JObj(<< <<"date_range", JObj(<< <<"start", JStr(DateStr(ctx.start_date))>>,
                                       <<"end", JStr(DateStr(ctx.end_date))>> >>)>>,
               <<"summaries", JList(MapSeq(block, ctx.summaries))>>,
               <<"themes", "[]">>,
               <<"emerging", JList(MapSeq(JTrend, ctx.emerging))>>,
               <<"declining", JList(MapSeq(JTrend, ctx.declining))>>,
               <<"correlations", "[]">>,
               <<"streaks", "{}">>,
               <<"coverage", "[]">>,
               <<"highlights", "{}">>,
               <<"anomalies", JStrList(ctx.anomalies)>>,
               <<"data_gaps", JStrList(ctx.data_gaps)>>,
               <<"source_notes", JStr(SourceNotes)>> >>)

TruncationMarker == "... (truncated)"

\* lines 446-449
clamp(text, max_chars) ==
    IF Len(text) <= max_chars THEN text
    ELSE Slice(text, max_chars) \o TruncationMarker

_compact_context(ctx, top_n, max_chars) == clamp(compact_context_text(ctx, top_n), max_chars)

TestBudget == 80

\* The budgets: the one of the test, one between the sizes of the contexts
\* explored, and the cap.
CompactBudgets == {TestBudget, MidBudget \div 2, MaxContextCap}

CompactTrends ==
    {<<>>} \cup {_detect_trends([plugin |-> "asana",
                                 monthly |-> <<TrendPoint("2024-02", 20),
                                               TrendPoint("2024-01", 10)>>],
                                50, 30)}

InitCompact ==
    /\ IdleAll
    /\ args \in [payload : [start_date : {AnchorDay - 31}, end_date : {AnchorDay},
                            window_months : {1, 12},
                            summaries : UNION {[1..n -> FallbackSummaries] :
                                                 n \in 0..MaxSummaries},
                            emerging : CompactTrends, declining : {<<>>},
                            anomalies : {<<>>},
                            data_gaps : {<<>>, <<"no asana data">>}],
                 top_n : {2},
                 max_context_chars : CompactBudgets]
    /\ ret = <<>>
    /\ locals = <<>>
    /\ pc = "_compact_context"

CompactContextCall ==
    /\ pc = "_compact_context"
    /\ ret' = _compact_context(args.payload, args.top_n, args.max_context_chars)
    /\ pc' = "done"
    /\ UNCHANGED <<service_all, args, locals>>

NextCompact == CompactContextCall

SpecCompact == InitCompact /\ [][NextCompact]_vars

\* C12: _compact_context returns the serialization unchanged when it is
\* within max_context_chars, and otherwise a text of at most
\* max_context_chars + 10 characters (90 for a budget of 80) that ends with
\* the truncation indicator.
C12_CompactWithinBudgetPlusTen ==
    pc = "done" =>
        LET natural == compact_context_text(args.payload, args.top_n)
        IN IF Len(natural) <= args.max_context_chars THEN ret = natural
           ELSE /\ Len(ret) <= args.max_context_chars + 10
                /\ args.max_context_chars = 80 => Len(ret) <= 90
                /\ EndsWith(ret, "(truncated)")

(***************************************************************************)
(* _pearson, _correlate_health_productivity. A series is a sequence of     *)
(* [period, value] points with whole values (monthly counts), for which    *)
(* the sums and means of the code are exact; r is kept in thousandths.     *)
(***************************************************************************)
\* b_map[k]: the value of the last point of b with period k
LastValue(b, period) ==
    LET hits == {i \in 1..Len(b) : b[i].period = period}
    IN b[CHOOSE i \in hits : \A j \in hits : j <= i].value

\* lines 419-424: the <<x, y>> pairs of the periods of a that b has too
AlignedPairs(a, b) ==
    LET shared(p) == \E i \in 1..Len(b) : b[i].period = p.period
        pair(p) == <<p.value, LastValue(b, p.period)>>
    IN MapSeq(pair, SelectSeq(a, shared))

RECURSIVE IsqrtBetween(_, _, _)
\* floor(sqrt(n)), known to lie in lo..hi
IsqrtBetween(n, lo, hi) ==
    IF lo = hi THEN lo
    ELSE LET mid == (lo + hi + 1) \div 2
         IN IF mid * mid <= n THEN IsqrtBetween(n, mid, hi)
            ELSE IsqrtBetween(n, lo, mid - 1)

\* round(num / sqrt(den_sq), 3) in thousandths, ties to even, for
\* num * num <= den_sq. On series of up to four points with the values of
\* PearsonValues the floating-point quotient of the code rounds to the same
\* thousandth.
RoundThousandths(num, den_sq) ==
    LET scaled == 1000000 * num * num
        floor == IsqrtBetween(scaled \div den_sq, 0, 1000)
        twice == (2 * floor + 1) * (2 * floor + 1) * den_sq
        magnitude == IF twice < 4 * scaled THEN floor + 1
                     ELSE IF twice > 4 * scaled THEN floor
                     ELSE IF floor % 2 = 0 THEN floor ELSE floor + 1
    IN IF num < 0 THEN -magnitude ELSE magnitude

\* lines 425-434 over the aligned pairs: <<>> for None, else <<r>>. With
\* n * mean in place of the mean, num is n * sum(xy) - sum(x) * sum(y) and
\* den the root of the product of the like terms of x and of y.
pearson_of(pairs, min_points) ==
    LET n == Len(pairs)
        x(p) == p[1]
        y(p) == p[2]
        xy(p) == p[1] * p[2]
        xx(p) == p[1] * p[1]
        yy(p) == p[2] * p[2]
        sum_x == SumSeq(MapSeq(x, pairs))
        sum_y == SumSeq(MapSeq(y, pairs))
        num == n * SumSeq(MapSeq(xy, pairs)) - sum_x * sum_y
        den_x == n * SumSeq(MapSeq(xx, pairs)) - sum_x * sum_x
        den_y == n * SumSeq(MapSeq(yy, pairs)) - sum_y * sum_y
    IN IF n < min_points THEN <<>>
       ELSE IF den_x * den_y = 0 THEN <<>>
       ELSE <<RoundThousandths(num, den_x * den_y)>>

_pearson_two_points(a, b) == pearson_of(AlignedPairs(a, b), 2)

_pearson(a, b) == pearson_of(AlignedPairs(a, b), 3)

\* extract_series: the monthly points of the first summary of the plugin
extract_series(summaries, plugin) ==
    LET of_plugin(s) == s.plugin = plugin
        hits == SelectSeq(summaries, of_plugin)
    IN IF hits = <<>> THEN <<>> ELSE hits[1].monthly

_correlate_health_productivity(summaries) ==
    LET steps == extract_series(summaries, "google_fit")
        tasks == extract_series(summaries, "asana")
        time_entries == extract_series(summaries, "toggl")
        correlation(pair, other, source) ==
            IF steps /= <<>> /\ other /= <<>> /\ _pearson(steps, other) /= <<>>
            THEN <<[pair |-> pair, r |-> _pearson(steps, other)[1],
                    source |-> <<"google_fit", source>>]>>
            ELSE <<>>
    IN correlation("steps_vs_tasks", tasks, "asana")
         \o correlation("steps_vs_time", time_entries, "toggl")

PearsonPeriods == <<"2024-04", "2024-03", "2024-02", "2024-01">>

PearsonValues == {0, 1, 2}

\* The monthly points of a plugin: the latest months, latest first.
PearsonLatest ==
    UNION {{[i \in 1..n |-> TrendPoint(PearsonPeriods[i], values[i])] :
              values \in [1..n -> PearsonValues]} : n \in 0..Len(PearsonPeriods)}

\* The monthly points of a plugin with months missing.
PearsonSparse ==
    UNION {{SelectSeq(full, LAMBDA p : p.period \in kept) :
              kept \in SUBSET {PearsonPeriods[i] : i \in 1..Len(PearsonPeriods)}} :
           full \in {s \in PearsonLatest : Len(s) = Len(PearsonPeriods)}}

InitPearson ==
    /\ IdleAll
    /\ args \in [steps : PearsonLatest, tasks : PearsonSparse]
    /\ ret = <<>>
    /\ locals = <<>>
    /\ pc = "_correlate_health_productivity"

CorrelateHealthProductivity ==
    /\ pc = "_correlate_health_productivity"
    /\ ret' = [r |-> _pearson(args.steps, args.tasks),
               correlations |-> _correlate_health_productivity(
                   <<[plugin |-> "google_fit", monthly |-> args.steps],
                     [plugin |-> "asana", monthly |-> args.tasks]>>)]
    /\ pc' = "done"
    /\ UNCHANGED <<service_all, args, locals>>

NextPearson == CorrelateHealthProductivity

SpecPearson == InitPearson /\ [][NextPearson]_vars

\* The periods both series have, and the two values at a shared period.
SharedPeriods ==
    {args.steps[i].period : i \in 1..Len(args.steps)}
        \cap {args.tasks[i].period : i \in 1..Len(args.tasks)}

StepsAt(period) ==
    (CHOOSE p \in SeqToSet(args.steps) : p.period = period).value

TasksAt(period) ==
    (CHOOSE p \in SeqToSet(args.tasks) : p.period = period).value

\* C14: _pearson is None, and no correlation is emitted, when fewer than 3
\* periods are shared or either aligned series is constant; otherwise r is
\* within [-1, 1], and r is 1.0 when the aligned series are perfectly
\* positively linearly related.
C14_PearsonDefinedAndBounded ==
    pc = "done" =>
        LET constant_steps == \A p, q \in SharedPeriods : StepsAt(p) = StepsAt(q)
            constant_tasks == \A p, q \in SharedPeriods : TasksAt(p) = TasksAt(q)
            undefined == \/ Cardinality(SharedPeriods) < 3
                         \/ constant_steps
                         \/ constant_tasks
            linear == \E rise \in 1..2, run \in 1..2 :
                         \A p, q \in SharedPeriods :
                             run * (TasksAt(p) - TasksAt(q))
                                 = rise * (StepsAt(p) - StepsAt(q))
        IN /\ undefined <=> ret.r = <<>>
           /\ undefined <=> ret.correlations = <<>>
           /\ ~undefined =>
                 /\ Len(ret.correlations) = 1
                 /\ ret.correlations[1].r = ret.r[1]
                 /\ -1000 <= ret.r[1] /\ ret.r[1] <= 1000
                 /\ linear => ret.r[1] = 1000

\* C14 witness: four shared months with tasks = 2 * steps gave r = 1.0, and
\* the correlation was emitted.
C14_Witness ==
    /\ pc = "done"
    /\ Cardinality(SharedPeriods) = 4
    /\ \A p \in SharedPeriods : TasksAt(p) = 2 * StepsAt(p)
    /\ ret.r = <<1000>>
    /\ Len(ret.correlations) = 1

(***************************************************************************)
(* _derive_themes: the candidates, their tokens and the clustering pass;   *)
(* a recency is a reduced fraction <<num, den>>                            *)
(***************************************************************************)
STOPWORDS ==
    {"the", "and", "of", "to", "a", "in", "for", "with", "on", "at", "by", "an",
     "is", "it", "from", "task", "project", "habit", "todo"}

UpperCase == "ABCDEFGHIJKLMNOPQRSTUVWXYZ"

LowerCase == "abcdefghijklmnopqrstuvwxyz"

CharAt(text, i) == SubSeq(text, i, i)

\* str.lower() of one character
LowerChar(c) ==
    LET hits == {i \in 1..Len(UpperCase) : CharAt(UpperCase, i) = c}
    IN IF hits = {} THEN c ELSE CharAt(LowerCase, CHOOSE i \in hits : TRUE)

\* str.lower()
Lower(text) == Join([i \in 1..Len(text) |-> LowerChar(CharAt(text, i))], "")

\* the k-th smallest member of a set of numbers
KthSmallest(numbers, k) ==
    CHOOSE m \in numbers : Cardinality({x \in numbers : x < m}) = k - 1

\* line 280: the words of the text once "/", "-" and "_" are blanks
SplitWords(text_val) ==
    LET blank(i) == i < 1 \/ i > Len(text_val)
                      \/ CharAt(text_val, i) \in {" ", "/", "-", "_"}
        starts == {i \in 1..Len(text_val) : ~blank(i) /\ blank(i - 1)}
        stop(i) == CHOOSE j \in i..Len(text_val) :
                       /\ blank(j + 1)
                       /\ \A m \in i..j : ~blank(m)
    IN [k \in 1..Cardinality(starts) |->
            SubSeq(text_val, KthSmallest(starts, k), stop(KthSmallest(starts, k)))]

_normalize_tokens(text_val) ==
    LET kept(t) == t /= "" /\ t \notin STOPWORDS
    IN SelectSeq(MapSeq(Lower, SplitWords(text_val)), kept)

\* min(1.0, num / den) for den > 0, as a reduced fraction
CappedRatio(num, den) ==
    IF num >= den THEN <<1, 1>>
    ELSE <<num \div Gcd(num, den), den \div Gcd(num, den)>>

_recent_activity_factor(summary) ==
    IF summary.monthly = <<>> THEN <<0, 1>>
    ELSE LET last == summary.monthly[1].value
             value_of(p) == p.value
             prior_values == IF Len(summary.monthly) > 1
                             THEN MapSeq(value_of, Tail(summary.monthly))
                             ELSE <<0>>
         IN IF SumSeq(prior_values) = 0
            THEN (IF last > 0 THEN <<1, 1>> ELSE <<0, 1>>)
            ELSE CappedRatio(last * Len(prior_values), 2 * SumSeq(prior_values))

\* lines 293-294: a category row names itself by its category, project or
\* data_type and weighs its items, total_minutes or records
CandidateName(cat) ==
    IF cat.name_col \in {"category", "project", "data_type"} /\ cat.name /= ""
    THEN cat.name ELSE "uncategorized"

CandidateValue(cat) ==
    IF cat.value_col \in {"items", "total_minutes", "records"} THEN cat.value ELSE 0

RECURSIVE candidates_of(_)
\* lines 289-302
candidates_of(summaries) ==
    IF summaries = <<>> THEN <<>>
    ELSE LET summary == Head(summaries)
             candidate(cat) == [name |-> CandidateName(cat),
                                value |-> CandidateValue(cat),
                                source |-> summary.plugin,
                                recency |-> _recent_activity_factor(summary)]
         IN MapSeq(candidate, summary.categories) \o candidates_of(Tail(summaries))

RECURSIVE InsertByKeyDesc(_, _, _)
\* x goes behind every item whose key is not smaller: the sort is stable
InsertByKeyDesc(Key(_), sorted, x) ==
    IF sorted = <<>> THEN <<x>>
    ELSE IF Key(sorted[Len(sorted)]) >= Key(x) THEN Append(sorted, x)
    ELSE Append(InsertByKeyDesc(Key, SubSeq(sorted, 1, Len(sorted) - 1), x),
                sorted[Len(sorted)])

RECURSIVE SortByKeyDesc(_, _)
\* sorted(items, key=..., reverse=True)
SortByKeyDesc(Key(_), items) ==
    IF items = <<>> THEN <<>>
    ELSE InsertByKeyDesc(Key, SortByKeyDesc(Key, SubSeq(items, 1, Len(items) - 1)),
                         items[Len(items)])

CandidateKey(cand) == cand.value

tokens_of_no_fallback(cand) == SeqToSet(_normalize_tokens(cand.name))

\* lines 306-308
tokens_of(cand) ==
    LET tokens == SeqToSet(_normalize_tokens(cand.name))
    IN IF tokens = {} THEN {Lower(cand.name)} ELSE tokens

\* max() of two fractions
MaxFraction(a, b) == IF b[1] * a[2] > a[1] * b[2] THEN b ELSE a

\* lines 311-314 with jaccard >= 0.3 as 10 * overlap >= 3 * union
similar_at(tokens, cluster_tokens, tenths) ==
    LET overlap == Cardinality(tokens \cap cluster_tokens)
        union == Cardinality(tokens \cup cluster_tokens)
    IN union /= 0 /\ 10 * overlap >= tenths * union

similar_half(tokens, cluster_tokens) == similar_at(tokens, cluster_tokens, 5)

similar(tokens, cluster_tokens) == similar_at(tokens, cluster_tokens, 3)

\* lines 305-332 for one candidate
place(clusters, cand) ==
    LET tokens == tokens_of(cand)
        matching == {i \in 1..Len(clusters) : similar(tokens, clusters[i].tokens)}
    IN IF matching /= {}
       THEN LET first == KthSmallest(matching, 1)
                cluster == clusters[first]
            IN [clusters EXCEPT ![first] =
                   [tokens |-> cluster.tokens \cup tokens,
                    total |-> cluster.total + cand.value,
                    sources |-> cluster.sources \cup {cand.source},
                    names |-> Append(cluster.names, cand.name),
                    recency |-> MaxFraction(cluster.recency, cand.recency)]]
       ELSE Append(clusters, [tokens |-> tokens,
                              total |-> cand.value,
                              sources |-> {cand.source},
                              names |-> <<cand.name>>,
                              recency |-> cand.recency])

(***************************************************************************)
(* _derive_themes: from the clusters to the themes. A share and a          *)
(* relevance are fractions <<num, den>>; the rounded values are whole      *)
(* tenths of a percent and whole thousandths.                              *)
(***************************************************************************)
Ascii == " -/0123456789ABCDEFGHIJKLMNOPQRSTUVWXYZ_abcdefghijklmnopqrstuvwxyz"

CharRank(c) == CHOOSE i \in 1..Len(Ascii) : CharAt(Ascii, i) = c

\* a < b for two strings
StrLess(a, b) ==
    \E i \in 1..(Len(a) + 1) :
        /\ i <= Len(b)
        /\ SubSeq(a, 1, i - 1) = SubSeq(b, 1, i - 1)
        /\ \/ i > Len(a)
           \/ CharRank(CharAt(a, i)) < CharRank(CharAt(b, i))

\* sorted(list(strings))
SortStrings(strings) ==
    [k \in 1..Cardinality(strings) |->
        CHOOSE s \in strings : Cardinality({t \in strings : StrLess(t, s)}) = k - 1]

\* round(scale * num / den), ties to even, for num >= 0 and den > 0
RoundScaled(num, den, scale) ==
    LET q == (scale * num) \div den
        r == (scale * num) % den
    IN IF 2 * r > den THEN q + 1
       ELSE IF 2 * r < den THEN q
       ELSE IF q % 2 = 0 THEN q ELSE q + 1

AtLeast(fraction, num, den) == fraction[1] * den >= num * fraction[2]

\* recency_weight * max(share, 0.01) * consistency_weight, the last one 1.0
_relevance_score(share, recency_weight) ==
    LET floor == IF AtLeast(share, 1, 100) THEN share ELSE <<1, 100>>
    IN <<recency_weight[1] * floor[1], recency_weight[2] * floor[2]>>

_classify_theme_floor_1pct(share, recency_weight) ==
    IF ~AtLeast(share, 1, 100) THEN <<"noise", "stable">>
    ELSE <<IF AtLeast(recency_weight, 3, 10) THEN "active"
           ELSE IF AtLeast(recency_weight, 1, 10) THEN "paused"
           ELSE IF AtLeast(recency_weight, 5, 100) /\ AtLeast(share, 1, 10)
                THEN "consolidated"
           ELSE IF ~AtLeast(recency_weight, 5, 100) /\ AtLeast(share, 5, 100)
                THEN "abandoned"
           ELSE "noise",
           IF AtLeast(recency_weight, 25, 100) THEN "rising"
           ELSE IF recency_weight[1] * 100 <= 5 * recency_weight[2] THEN "fading"
           ELSE "stable">>

_classify_theme(share, recency_weight) ==
    IF ~AtLeast(share, 2, 100) THEN <<"noise", "stable">>
    ELSE LET lifecycle ==
                 IF AtLeast(recency_weight, 3, 10) THEN "active"
                 ELSE IF AtLeast(recency_weight, 1, 10) THEN "paused"
                 ELSE IF AtLeast(recency_weight, 5, 100) /\ AtLeast(share, 1, 10)
                      THEN "consolidated"
                 ELSE IF ~AtLeast(recency_weight, 5, 100) /\ AtLeast(share, 5, 100)
                      THEN "abandoned"
                 ELSE "noise"
             trajectory ==
                 IF AtLeast(recency_weight, 25, 100) THEN "rising"
                 ELSE IF recency_weight[1] * 100 <= 5 * recency_weight[2] THEN "fading"
                 ELSE "stable"
         IN <<lifecycle, trajectory>>

ClusterKey(cluster) == cluster.total

ThemeKey(theme) == theme.relevance

\* lines 333-353
themes_of(clusters, top_n) ==
    LET sum == SumSeq(MapSeq(ClusterKey, clusters))
        total_value == IF sum = 0 THEN 1 ELSE sum
        share(cluster) == <<cluster.total, total_value>>
        theme(cluster) ==
            [theme |-> Join(Take(SortStrings(cluster.tokens), 3), " / "),
             share_pct |-> RoundScaled(cluster.total, total_value, 1000),
             sources |-> SortStrings(cluster.sources),
             examples |-> Take(cluster.names, 3),
             relevance |->
                 RoundScaled(_relevance_score(share(cluster), cluster.recency)[1],
                             _relevance_score(share(cluster), cluster.recency)[2], 1000),
             lifecycle |-> _classify_theme(share(cluster), cluster.recency)[1],
             trajectory |-> _classify_theme(share(cluster), cluster.recency)[2]]
        kept(cluster) == _classify_theme(share(cluster), cluster.recency)[1] /= "noise"
        themes == MapSeq(theme, SelectSeq(SortByKeyDesc(ClusterKey, clusters), kept))
    IN Take(SortByKeyDesc(ThemeKey, themes), top_n)

ThemeNames ==
    {"Learning Portuguese", "portuguese_practice", "Gym", "Gym / Learning", "The"}

ThemeValues == {1, 3}

ProjectRow(name, minutes) ==
    [name_col |-> "project", name |-> name, value_col |-> "total_minutes",
     value |-> minutes]

\* Up to two category rows of asana and up to one project row of toggl.
ThemeSummaries ==
    LET rows == {CategoryRow(name, value) : name \in ThemeNames, value \in ThemeValues}
        projects == {ProjectRow(name, value) : name \in ThemeNames, value \in {1, 60}}
        asana == [plugin : {"asana"},
                  monthly : {<<>>, <<TrendPoint("2024-02", 3), TrendPoint("2024-01", 5)>>},
                  categories : {<<>>} \cup {<<r>> : r \in rows}
                                 \cup {<<r, s>> : r \in rows, s \in rows}]
        toggl == [plugin : {"toggl"},
                  monthly : {<<TrendPoint("2024-02", 4)>>,
                             <<TrendPoint("2024-02", 1), TrendPoint("2024-01", 4)>>},
                  categories : {<<>>} \cup {<<r>> : r \in projects}]
    IN {<<a, t>> : a \in asana, t \in toggl}

InitThemes ==
    /\ IdleAll
    /\ args \in [summaries : ThemeSummaries, top_n : {1, 3}]
    /\ ret = <<>>
    /\ locals = <<>>
    /\ pc = "_derive_themes"

\* lines 289-305: the candidates, in the order the loop takes them
DeriveThemes ==
    /\ pc = "_derive_themes"
    /\ locals' = [pending |-> SortByKeyDesc(CandidateKey, candidates_of(args.summaries)),
                  clusters |-> <<>>]
    /\ pc' = "clustering"
    /\ UNCHANGED <<service_all, args, ret>>

\* lines 305-332: one turn of the loop
PlaceCandidate ==
    /\ pc = "clustering"
    /\ locals.pending /= <<>>
    /\ locals' = [pending |-> Tail(locals.pending),
                  clusters |-> place(locals.clusters, Head(locals.pending))]
    /\ UNCHANGED <<service_all, args, ret, pc>>

\* lines 333-353
BuildThemes ==
    /\ pc = "clustering"
    /\ locals.pending = <<>>
    /\ ret' = themes_of(locals.clusters, args.top_n)
    /\ pc' = "done"
    /\ UNCHANGED <<service_all, args, locals>>

NextThemes ==
    \/ DeriveThemes
    \/ PlaceCandidate
    \/ BuildThemes

SpecThemes == InitThemes /\ [][NextThemes]_vars

\* The candidates of the call, in the order the loop takes them, and those
\* already taken.
SortedCandidates == SortByKeyDesc(CandidateKey, candidates_of(args.summaries))

ProcessedCandidates ==
    SubSeq(SortedCandidates, 1, Len(SortedCandidates) - Len(locals.pending))

Jaccard30(tokens, others) ==
    10 * Cardinality(tokens \cap others) >= 3 * Cardinality(tokens \cup others)

\* C11: the candidates are taken in descending value order; each one joins
\* the first cluster, in creation order, whose accumulated tokens have
\* Jaccard similarity >= 0.3 with its tokens (tokens united, value added,
\* source added, label appended, larger recency kept) and otherwise opens a
\* new cluster; so "Learning Portuguese" and "portuguese_practice" end in one
\* cluster and "Gym" in a cluster of its own.
C11_FirstSimilarClusterOrNew ==
    /\ [](pc = "clustering" =>
            \A i, j \in 1..Len(locals.pending) :
                i < j => locals.pending[i].value >= locals.pending[j].value)
    /\ [][pc = "clustering" /\ locals.pending /= <<>> =>
            LET cand == Head(locals.pending)
                tokens == tokens_of(cand)
                old == locals.clusters
                new == locals'.clusters
                near == {i \in 1..Len(old) : Jaccard30(tokens, old[i].tokens)}
            IN IF near = {}
               THEN /\ Len(new) = Len(old) + 1
                    /\ SubSeq(new, 1, Len(old)) = old
                    /\ new[Len(new)] = [tokens |-> tokens, total |-> cand.value,
                                        sources |-> {cand.source},
                                        names |-> <<cand.name>>,
                                        recency |-> cand.recency]
               ELSE \E first \in near :
                    /\ \A i \in near : first <= i
                    /\ Len(new) = Len(old)
                    /\ \A i \in 1..Len(old) : i /= first => new[i] = old[i]
                    /\ new[first].tokens = old[first].tokens \cup tokens
                    /\ new[first].total = old[first].total + cand.value
                    /\ new[first].sources = old[first].sources \cup {cand.source}
                    /\ new[first].names = Append(old[first].names, cand.name)
                    /\ new[first].recency \in {old[first].recency, cand.recency}
                    /\ AtLeast(new[first].recency, old[first].recency[1],
                               old[first].recency[2])
                    /\ AtLeast(new[first].recency, cand.recency[1], cand.recency[2])]_vars
    /\ [](pc = "done"
            /\ SeqToSet(MapSeq(LAMBDA c : c.name, SortedCandidates))
                 = {"Learning Portuguese", "portuguese_practice", "Gym"}
            /\ Len(SortedCandidates) = Cardinality(SeqToSet(SortedCandidates))
          => /\ Len(locals.clusters) = 2
             /\ \E i, j \in 1..2 :
                  /\ i /= j
                  /\ SeqToSet(locals.clusters[i].names)
                       = {"Learning Portuguese", "portuguese_practice"}
                  /\ locals.clusters[i].tokens = {"learning", "portuguese", "practice"}
                  /\ locals.clusters[j].names = <<"Gym">>
                  /\ locals.clusters[j].tokens = {"gym"})

\* C11 witness: the three labels of the example were clustered, "Gym" having
\* the largest value and so the first cluster, the other two the second.
C11_Witness ==
    /\ pc = "done"
    /\ Len(SortedCandidates) = 3
    /\ Len(locals.clusters) = 2
    /\ locals.clusters[1].names = <<"Gym">>
    /\ locals.clusters[2].names = <<"Learning Portuguese", "portuguese_practice">>
    /\ locals.clusters[2].sources = {"asana", "toggl"}

(***************************************************************************)
(* _recent_activity_factor on its own                                      *)
(***************************************************************************)
RecencyValues == {0, 1, 2, 3, 5}

\* The monthly points of a summary, latest first: none, one, two or three.
RecencyMonthly ==
    {<<>>}
      \cup {<<TrendPoint("2024-03", a)>> : a \in RecencyValues}
      \cup {<<TrendPoint("2024-03", a), TrendPoint("2024-02", b)>> :
              a \in RecencyValues, b \in RecencyValues}
      \cup {<<TrendPoint("2024-03", a), TrendPoint("2024-02", b),
              TrendPoint("2024-01", c)>> :
              a \in RecencyValues, b \in RecencyValues, c \in RecencyValues}

InitRecency ==
    /\ IdleAll
    /\ args \in [plugin : {"asana"}, monthly : RecencyMonthly]
    /\ ret = <<>>
    /\ locals = <<>>
    /\ pc = "_recent_activity_factor"

RecentActivityFactor ==
    /\ pc = "_recent_activity_factor"
    /\ ret' = _recent_activity_factor(args)
    /\ pc' = "done"
    /\ UNCHANGED <<service_all, args, locals>>

NextRecency == RecentActivityFactor

SpecRecency == InitRecency /\ [][NextRecency]_vars

\* The latest value, and the sum and the number of the prior values.
LatestValue == args.monthly[1].value

PriorSum == SumSeq(MapSeq(LAMBDA p : p.value, Tail(args.monthly)))

PriorCount == Len(args.monthly) - 1

\* C21: the factor is the latest value over the average of the prior
\* values, capped at 1.0; without prior data, or with a prior average of 0,
\* it is 1.0 for a latest value > 0 and 0.0 otherwise; it lies in [0, 1].
C21_LatestOverPriorAverage ==
    pc = "done" /\ args.monthly /= <<>> =>
        /\ ret[1] >= 0 /\ ret[1] <= ret[2]
        /\ IF PriorCount = 0 \/ PriorSum = 0
           THEN ret = IF LatestValue > 0 THEN <<1, 1>> ELSE <<0, 1>>
           ELSE IF LatestValue * PriorCount >= PriorSum
                THEN ret = <<1, 1>>
                ELSE ret[1] * PriorSum = LatestValue * PriorCount * ret[2]

\* What the code returns instead where there is prior data: the latest
\* value over twice the prior average, capped at 1.0.
C21_LatestOverTwicePriorAverage ==
    pc = "done" /\ args.monthly /= <<>> =>
        /\ ret[1] >= 0 /\ ret[1] <= ret[2]
        /\ IF PriorCount = 0 \/ PriorSum = 0
           THEN ret = IF LatestValue > 0 THEN <<1, 1>> ELSE <<0, 1>>
           ELSE IF LatestValue * PriorCount >= 2 * PriorSum
                THEN ret = <<1, 1>>
                ELSE ret[1] * 2 * PriorSum = LatestValue * PriorCount * ret[2]

(***************************************************************************)
(* _consistency on its own                                                 *)
(***************************************************************************)
ConsistencyValues == {0, 1, 2, 3}

\* Series of one to three active days, latest day first, and the empty one.
ConsistencySeries ==
    UNION {[1..n -> [day : {AnchorDay}, col : {"minutes"}, val : ConsistencyValues]] :
             n \in 0..3}

InitConsistency ==
    /\ IdleAll
    /\ args \in [series : ConsistencySeries, window_days : {30}]
    /\ ret = <<>>
    /\ locals = <<>>
    /\ pc = "_consistency"

Consistency ==
    /\ pc = "_consistency"
    /\ ret' = _consistency(args.series, args.window_days)
    /\ pc' = "done"
    /\ UNCHANGED <<service_all, args, locals>>

NextConsistency == Consistency

SpecConsistency == InitConsistency /\ [][NextConsistency]_vars

\* Over the values of the series: the sum, and n * sum of squares - sum^2,
\* which is (n * pstdev)^2; cv = pstdev / mean is the root of the second over
\* the first.
SeriesSum == SumOfVals(args.series)

SeriesSpread ==
    Len(args.series) * SumSeq(MapSeq(LAMBDA r : r.val * r.val, args.series))
        - SeriesSum * SeriesSum

\* C22: for a non-empty series cv is defined exactly when the mean is not 0;
\* burstiness is "spread" exactly when cv is defined and < 0.5, cv = 0
\* included, "clustered" exactly when cv is defined and >= 0.5, and null
\* when cv is undefined.
C22_BurstinessByCv ==
    pc = "done" /\ args.series /= <<>> =>
        LET below_half == 4 * SeriesSpread < SeriesSum * SeriesSum
        IN /\ ret.cv_defined <=> SeriesSum /= 0
           /\ ret.burstiness = "spread" <=> (SeriesSum /= 0 /\ below_half)
           /\ ret.burstiness = "clustered" <=> (SeriesSum /= 0 /\ ~below_half)
           /\ ret.burstiness = NoValue <=> SeriesSum = 0

\* What the code computes: "spread" exactly when cv is defined, not 0 and
\* < 0.5, and "clustered" in every other case of a non-empty series.
C22_BurstinessAsComputed ==
    pc = "done" /\ args.series /= <<>> =>
        LET below_half == 4 * SeriesSpread < SeriesSum * SeriesSum
            spread == SeriesSum /= 0 /\ SeriesSpread /= 0 /\ below_half
        IN /\ ret.cv_defined <=> SeriesSum /= 0
           /\ ret.burstiness = IF spread THEN "spread" ELSE "clustered"

\* The days of a source's table within the last 30 days whose value reaches
\* a threshold.
QualifyingDays(source, t) ==
    {r \in RowsBetween(tables[source], windows["LAST_30_DAYS"][1],
                       windows["LAST_30_DAYS"][2]) : r.val >= t}

\* C23: in the snapshots of build_context a day of google_fit counts toward
\* the streak only with steps >= 2000, a day of another source with a value
\* >= 1.0: no streak is longer than the number of such days.
C23_StepsStreakNeeds2000 ==
    \A source \in DOMAIN source_snapshots :
        source_snapshots[source].streaks.longest
            <= Cardinality(QualifyingDays(source,
                   IF source = "google_fit" THEN StepsThreshold ELSE DefaultThreshold))

\* What build_context computes: every source's streak, that of google_fit
\* included, counts the days whose value reaches the default threshold.
C23_EveryStreakAtDefaultThreshold ==
    \A source \in DOMAIN source_snapshots :
        /\ source_snapshots[source].streaks.longest
             <= Cardinality(QualifyingDays(source, DefaultThreshold))
        /\ source = "google_fit" /\ tables[source] = RecentTable(DayUnit(source))
             => source_snapshots[source].streaks.longest \in {0, 3}

(***************************************************************************)
(* The order of the caveats of _validate_metrics (SpecValidate)            *)
(***************************************************************************)
\* The input positions of the metrics the validated list lacks, the caveat
\* of a dropped metric and where the caveat list holds it.
DroppedAt == {i \in 1..Len(collected) : collected[i] \notin SeqToSet(metrics)}

CaveatOf(m) ==
    IF m.value < 0 THEN NegativeCaveat(m, enum_qualified) ELSE ExceedCaveat(m)

CaveatPlaces(m) == {k \in 1..Len(caveats) : caveats[k] = CaveatOf(m)}

\* C24: the caveats are in detection order, one per dropped metric: the
\* caveat of a dropped metric earlier in the input precedes the caveat of a
\* dropped metric later in the input, whichever rule dropped them.
C24_CaveatsInInputOrder ==
    pc = "done" =>
        /\ Len(caveats) = Cardinality(DroppedAt)
        /\ \A i \in DroppedAt : Cardinality(CaveatPlaces(collected[i])) = 1
        /\ \A i, j \in DroppedAt :
              i < j => \A k \in CaveatPlaces(collected[i]) :
                          \A l \in CaveatPlaces(collected[j]) : k < l

\* What the code returns: one caveat per dropped metric, those of the
\* negative metrics first, in input order, then those of the 30-day metrics
\* above their 90-day figure, in input order.
C24_NegativeCaveatsFirst ==
    pc = "done" =>
        /\ Len(caveats) = Cardinality(DroppedAt)
        /\ \A i \in DroppedAt : Cardinality(CaveatPlaces(collected[i])) = 1
        /\ \A i, j \in DroppedAt :
              LET before == \A k \in CaveatPlaces(collected[i]) :
                               \A l \in CaveatPlaces(collected[j]) : k < l
              IN /\ collected[i].value < 0 /\ collected[j].value >= 0 => before
                 /\ (collected[i].value < 0 <=> collected[j].value < 0) /\ i < j
                      => before

(***************************************************************************)
(* The themes _derive_themes returns (SpecThemes)                          *)
(***************************************************************************)
\* The sum of the cluster totals, and the clusters a theme can stand for:
\* those whose first three labels are the theme's examples.
ClusterTotalSum == SumSeq(MapSeq(LAMBDA c : c.total, locals.clusters))

ClustersOf(theme) ==
    {i \in 1..Len(locals.clusters) : Take(locals.clusters[i].names, 3) = theme.examples}

PresenceDays == {AnchorDay - 1, AnchorDay - 2, AnchorDay - 4, AnchorDay - 9}

\* Series of up to three rows in any order, a day possibly more than once.
PresenceSeries ==
    UNION {[1..n -> [day : PresenceDays, col : {"completed"}, val : {1}]] : n \in 0..3}

InitPresence ==
    /\ IdleAll
    /\ args \in [series : PresenceSeries, window_days : {30, 90}]
    /\ ret = <<>>
    /\ locals = <<>>
    /\ pc = "_presence"

Presence ==
    /\ pc = "_presence"
    /\ ret' = _presence(args.series, args.window_days)
    /\ pc' = "done"
    /\ UNCHANGED <<service_all, args, locals>>

NextPresence == Presence

SpecPresence == InitPresence /\ [][NextPresence]_vars

\* The distinct active days of the series, and the inactive days between
\* two of them that are next to each other in sorted order.
ActiveDays == {args.series[i].day : i \in 1..Len(args.series)}

GapsBetween ==
    {e - d - 1 : <<d, e>> \in {p \in ActiveDays \X ActiveDays :
                                  /\ p[1] < p[2]
                                  /\ ~\E m \in ActiveDays : p[1] < m /\ m < p[2]}}

\* C26: days_active is the number of entries of the series; longest_gap_days
\* is the largest number of inactive days between two consecutive distinct
\* active days, 0 for a single distinct day and never negative, and is
\* window_days for the empty series.
C26_PresenceCountsAndGaps ==
    pc = "done" =>
        /\ ret.days_active = Len(args.series)
        /\ ret.window_days = args.window_days
        /\ ret.longest_gap_days >= 0
        /\ IF args.series = <<>> THEN ret.longest_gap_days = args.window_days
           ELSE IF GapsBetween = {} THEN ret.longest_gap_days = 0
           ELSE /\ ret.longest_gap_days \in GapsBetween
                /\ \A g \in GapsBetween : g <= ret.longest_gap_days

\* C26 witness: a series in which a day repeats and two distinct days lie
\* apart; the gap was reported and every entry counted.
C26_Witness ==
    /\ pc = "done"
    /\ Len(args.series) = 3
    /\ Cardinality(ActiveDays) = 2
    /\ ret.days_active = 3
    /\ ret.longest_gap_days = 4

(***************************************************************************)
(* _changes on its own, on validated metrics                               *)
(***************************************************************************)
\* The validated LAST_30_DAYS and PRIOR_30_DAYS metrics of one source: each
\* absent or with a value >= 0.
ChangeMetrics(source) ==
    {last \o prior :
        last \in {<<>>} \cup {<<Metric(source, "LAST_30_DAYS", v, 0)>> : v \in {0, 4, 5, 6}},
        prior \in {<<>>} \cup {<<Metric(source, "PRIOR_30_DAYS", v, 0)>> : v \in {0, 5}}}

InitChanges ==
    /\ IdleAll
    /\ args \in [metrics : {a \o t : a \in ChangeMetrics("asana"),
                                     t \in ChangeMetrics("toggl")},
                 order : SourceOrders(SourceSet)]
    /\ ret = <<>>
    /\ locals = <<>>
    /\ pc = "_changes"

Changes ==
    /\ pc = "_changes"
    /\ ret' = _changes(args.metrics, args.order)
    /\ pc' = "done"
    /\ UNCHANGED <<service_all, args, locals>>

NextChanges == Changes

SpecChanges == InitChanges /\ [][NextChanges]_vars

\* The values of a source's metrics of a window among the arguments, and
\* the lists of the result that name the source.
ValuesIn(source, window) ==
    {args.metrics[i].value : i \in {i \in 1..Len(args.metrics) :
        args.metrics[i].source = source /\ args.metrics[i].window = window}}

ListsNaming(source) ==
    {list \in {"meaningful_increases", "meaningful_decreases", "no_change"} :
        \E i \in 1..Len(ret[list]) : StartsWith(ret[list][i], source \o ":")}

\* C27: a source with both a LAST_30_DAYS and a PRIOR_30_DAYS metric is in
\* exactly one list: meaningful_increases when last is at least 20% above
\* prior, meaningful_decreases when at least 20% below, no_change otherwise;
\* a source lacking either metric is in none.
C27_EverySourceWithBothIsListed ==
    pc = "done" =>
        \A source \in SourceSet :
            LET lasts == ValuesIn(source, "LAST_30_DAYS")
                priors == ValuesIn(source, "PRIOR_30_DAYS")
            IN IF lasts = {} \/ priors = {} THEN ListsNaming(source) = {}
               ELSE \A last \in lasts, prior \in priors :
                      ListsNaming(source) =
                        IF 10 * (last - prior) >= 2 * prior /\ last /= prior
                        THEN {"meaningful_increases"}
                        ELSE IF 10 * (last - prior) <= -2 * prior /\ last /= prior
                        THEN {"meaningful_decreases"}
                        ELSE {"no_change"}

\* What the code computes: the same for a prior value other than 0; a
\* source whose prior value is 0 is in none of the lists.
C27_ListedUnlessPriorIsZero ==
    pc = "done" =>
        \A source \in SourceSet :
            LET lasts == ValuesIn(source, "LAST_30_DAYS")
                priors == ValuesIn(source, "PRIOR_30_DAYS")
            IN IF lasts = {} \/ priors = {} \/ priors = {0}
               THEN ListsNaming(source) = {}
               ELSE \A last \in lasts, prior \in priors :
                      ListsNaming(source) =
                        IF 10 * (last - prior) >= 2 * prior
                        THEN {"meaningful_increases"}
                        ELSE IF 10 * (last - prior) <= -2 * prior
                        THEN {"meaningful_decreases"}
                        ELSE {"no_change"}

(***************************************************************************)
(* What the clustering pass of _derive_themes keeps true (SpecThemes)      *)
(***************************************************************************)
\* The processed candidates a placement puts in cluster c, in the order
\* they were processed.
MembersOf(placement, c) ==
    SelectSeq([i \in 1..Len(ProcessedCandidates) |-> i], LAMBDA i : placement[i] = c)

LargestRecency(fractions) ==
    CHOOSE f \in fractions : \A g \in fractions : f[1] * g[2] >= g[1] * f[2]

\* C28: at every step of the clustering pass the clusters partition the
\* processed candidates: each processed candidate is a member of exactly one
\* cluster, a cluster's labels being those of its members; the cluster
\* totals sum to the processed values, each total being the sum over the
\* members; a cluster's sources are those of its members and its recency is
\* the largest of theirs; no cluster has an empty token set, a label of
\* stopwords only standing by its lower-cased name.
C28_ClustersPartitionProcessed ==
    pc \in {"clustering", "done"} =>
        LET processed == ProcessedCandidates
            clusters == locals.clusters
        IN /\ \E placement \in [1..Len(processed) -> 1..Len(clusters)] :
                \A c \in 1..Len(clusters) :
                    LET members == MembersOf(placement, c)
                    IN /\ members /= <<>>
                       /\ clusters[c].names = MapSeq(LAMBDA i : processed[i].name, members)
                       /\ clusters[c].total
                            = SumSeq(MapSeq(LAMBDA i : processed[i].value, members))
                       /\ clusters[c].sources
                            = {processed[i].source : i \in SeqToSet(members)}
                       /\ clusters[c].recency
                            = LargestRecency({processed[i].recency : i \in SeqToSet(members)})
           /\ SumSeq(MapSeq(LAMBDA c : c.total, clusters))
                = SumSeq(MapSeq(LAMBDA c : c.value, processed))
           /\ \A c \in 1..Len(clusters) :
                /\ clusters[c].tokens /= {}
                /\ "" \notin clusters[c].tokens
                /\ clusters[c].names = <<"The">> => clusters[c].tokens = {"the"}

\* C28 witness: three candidates processed into two clusters, one of two
\* members from both sources, the other the label of stopwords only.
C28_Witness ==
    /\ pc = "clustering"
    /\ locals.pending = <<>>
    /\ Len(ProcessedCandidates) = 3
    /\ Len(locals.clusters) = 2
    /\ \E c \in 1..2 : locals.clusters[c].sources = {"asana", "toggl"}
    /\ \E c \in 1..2 : locals.clusters[c].names = <<"The">>

(***************************************************************************)
(* Sources without an active day in the last 30 days (Spec)                *)
(***************************************************************************)
\* The records _context_from_metrics derived for a source, and whether a
\* list of highlight lines names the source.
DerivedFor(source) == {derived[i][2] : i \in {i \in 1..Len(derived) : derived[i][1] = source}}

NamedIn(lines, source) == \E i \in 1..Len(lines) : StartsWith(lines[i], source \o ":")

\* C29: a source whose snapshot has no active day in the last 30 days has
\* active_ratio 0 and momentum "cooling" or "paused"; where it is derived,
\* its engagement is "sparse" and its phase "recovery" or "paused", and the
\* highlights list it under neither wins nor stability.
C29_InactiveSourceIsSparse ==
    \A source \in DOMAIN source_snapshots :
        source_snapshots[source].presence.days_active = 0 =>
            /\ source_snapshots[source].consistency.active_ratio = 0
            /\ source_snapshots[source].momentum \in {"cooling", "paused"}
            /\ \A d \in DerivedFor(source) :
                  /\ d.momentum = source_snapshots[source].momentum
                  /\ d.engagement = "sparse"
                  /\ d.phase \in {"recovery", "paused"}
                  /\ d.momentum = "cooling" <=> d.phase = "recovery"
            /\ ~NamedIn(_highlights(derived).wins, source)
            /\ ~NamedIn(_highlights(derived).stability, source)

\* C29 witness: asana, active 40 days back and not since, was derived as
\* cooling, sparse and in recovery.
C29_Witness ==
    /\ "asana" \in DOMAIN source_snapshots
    /\ source_snapshots["asana"].presence.days_active = 0
    /\ \E d \in DerivedFor("asana") :
          d.momentum = "cooling" /\ d.engagement = "sparse" /\ d.phase = "recovery"

(***************************************************************************)
(* The sources mapping of _context_from_metrics (Spec)                     *)
(***************************************************************************)
Derived == pc \in {"compact", "ask_llm", "fallback", "returned"}

DerivedKeys == {derived[i][1] : i \in 1..Len(derived)}

\* C30: the sources mapping has a key for a source exactly when a metric of
\* the source survived validation, so none for a source whose table is
\* missing and one for a source that lost only its LAST_30_DAYS metric; the
\* phase, momentum and engagement under a key come from the snapshot of that
\* same source.
C30_SourcesAreThoseWithMetrics ==
    Derived =>
        /\ DerivedKeys = SourcesOf(metrics)
        /\ Len(derived) = Cardinality(DerivedKeys)
        /\ \A source \in SourceSet : ~tables[source].exists => source \notin DerivedKeys
        /\ \A i \in 1..Len(derived) :
              LET snap == source_snapshots[derived[i][1]]
                  d == derived[i][2]
                  ratio == snap.consistency.active_ratio
                  burst == snap.consistency.burstiness
              IN /\ d.momentum = snap.momentum
                 /\ d.presence = snap.presence
                 /\ d.streaks = snap.streaks
                 /\ d.phase = (IF snap.momentum = "rising" /\ ratio >= 50 THEN "execution"
                               ELSE IF snap.momentum = "stable" /\ ratio >= 30
                                    THEN "maintenance"
                               ELSE IF snap.momentum = "cooling" THEN "recovery"
                               ELSE "paused")
                 /\ d.engagement = (IF ratio >= 60 /\ burst = "spread" THEN "steady"
                                    ELSE IF ratio >= 30 /\ burst /= "clustered"
                                         THEN "focused"
                                    ELSE IF ratio > 0 THEN "fragmented"
                                    ELSE "sparse")

\* C30 witness: asana's table is missing and asana has no key; toggl lost
\* its LAST_30_DAYS metric in validation and has a key, next to another
\* source whose snapshot differs from toggl's.
C30_Witness ==
    /\ Derived
    /\ ~tables["asana"].exists
    /\ "asana" \notin DerivedKeys
    /\ "toggl" \in DerivedKeys
    /\ \E i \in 1..Len(collected) :
          collected[i].source = "toggl" /\ collected[i].window = "LAST_30_DAYS"
    /\ ~\E i \in 1..Len(metrics) :
          metrics[i].source = "toggl" /\ metrics[i].window = "LAST_30_DAYS"
    /\ \E source \in DerivedKeys :
          source_snapshots[source].momentum /= source_snapshots["toggl"].momentum

====
